---- MODULE Spec2Model ----
(***************************************************************************)
(* The rate-limiting engine of kanae (server/utils/limiter): the Limiter   *)
(* of extension.py with its registries, its backend health flags and its   *)
(* two enforcement adapters (the decorator wrapper of extension.py and the *)
(* middleware of middleware.py), run by several requests that interleave   *)
(* at every await of a counter-store operation.                            *)
(***************************************************************************)
EXTENDS Integers, Sequences, FiniteSets, TLC

(* ------------------------------ bounds -------------------------------- *)

\* Requests served in one behaviour, and how many may be in flight at once.
MaxRequests == 3
MaxInFlight == 2
\* Decorators (limit, shared_limit) applied to one operation.
MaxDecorators == 2
\* Window rollovers, outages of the primary store and clock ticks observed.
MaxRollovers == 1
MaxOutages == 1
MaxTime == 2
\* Seconds observed while the primary store stays unreachable.
MaxClock == 71
\* http.response.body messages of one response.
MaxChunks == 2
\* Operations the primary store answers before a scheduled outage.
MaxAnswers == 3

(* --------------------------- program constants ------------------------ *)

MAX_BACKEND_CHECKS == 5

(* ------------------------------ the world ----------------------------- *)

\* Operations (handlers) of the application, by qualified name.
Ops == {"routes.t1", "routes.t2"}
\* handler = None: no route matches the request.
NoHandler == "None"
\* The paths each operation is served under (a route with a path parameter).
PathsOf(op) ==
    IF op = "routes.t1" THEN {"/t1/a", "/t1/b"}
    ELSE IF op = "routes.t2" THEN {"/t2/a"}
    ELSE {"/nope"}
\* Values of the X_FORWARDED_FOR header (the identity get_ipaddr returns).
Identities == {"ipA", "ipB"}
\* request.method, which the server hands over in upper case.
Methods == {"GET", "POST"}
\* str.lower on the method names a request or a decorator may carry.
lower(m) ==
    CASE m \in {"GET", "Get", "get"} -> "get"
      [] m \in {"POST", "Post", "post"} -> "post"
      [] OTHER -> m

VARIABLES
    phase,                  \* "setup" (decorators run at import) or "serving"
    plan,                   \* the decorators the application's modules apply
    cfg,                    \* the Limiter's configuration attributes
    clients,                \* the requests the clients may send
    concurrency,            \* how many requests the server runs at once
    raised,                 \* the exception that ended the import, if any
    _route_limits,          \* dict name -> list of Limit
    _dynamic_route_limits,  \* dict name -> list of LimitGroup
    _exempt_routes,         \* set of names
    _marked_for_limiting,   \* dict name -> list of decorated functions
    _storage_dead,
    _check_backend_count,
    _last_check_backend,
    now,                    \* time.monotonic(), in seconds
    redis_up,               \* whether the primary store answers
    redis,                  \* counters of the primary store (self._storage)
    memory,                 \* counters of the MemoryStorage fallback
    req,                    \* the requests, each with its position
    hitlog,                 \* history: hits per counter in the current window
    rollovers,
    outages

registries ==
    <<_route_limits, _dynamic_route_limits, _exempt_routes, _marked_for_limiting>>
\* the registries that hold no LimitGroup
static_registries == <<_route_limits, _exempt_routes, _marked_for_limiting>>
health == <<_storage_dead, _check_backend_count, _last_check_backend>>
world == <<now, redis_up, rollovers, outages>>
stores == <<redis, memory, hitlog>>
vars ==
    <<phase, plan, cfg, clients, concurrency, raised, registries, health, world,
      stores, req>>

(* ----------------------------- dictionaries --------------------------- *)

EmptyDict == [k \in {} |-> <<>>]
Has(d, k) == k \in DOMAIN d
Get(d, k, default) == IF k \in DOMAIN d THEN d[k] ELSE default
Put(d, k, v) == [x \in DOMAIN d \cup {k} |-> IF x = k THEN v ELSE d[x]]

(* ------------------------------- quotas ------------------------------- *)

\* A parsed RateLimitItem: amount per window ("1/minute").
Item(n, per) == [amount |-> n, per |-> per]

\* Key functions: get_ipaddr(request), and lambda: "test" (no request
\* parameter, one key for every identity).
KeyFuncs == {"get_ipaddr", "const"}
KeyFuncTakesRequest(kf) == kf = "get_ipaddr"
\* by_header is lambda request: request.headers["foo"], which raises
\* KeyError for a request without that header (foo = 0).
CallKeyFunc(kf, r) ==
    IF kf = "get_ipaddr" THEN r.ident
    ELSE IF kf = "by_header" THEN (IF r.foo = 1 THEN "one" ELSE "more")
    ELSE "test"

\* A callable given as the scope of a shared quota.
ScopeFunc == "scope_func"

\* Limit.__init__: one quota with its context.
Limit(item, g) ==
    [limit |-> item,
     key_func |-> g.key_func,
     scope |-> g.scope,
     per_method |-> g.per_method,
     has_methods |-> g.has_methods,
     methods |-> g.methods,
     error_message |-> g.error_message,
     exempt_when |-> g.exempt_when,
     cost_callable |-> g.cost_callable,
     cost |-> g.cost,
     override_defaults |-> g.override_defaults]

\* error_message: None, a string, or a callable with the string it returns.
NoMessage == [kind |-> "None", text |-> ""]
Message(text) == [kind |-> "str", text |-> text]
CallableMessage(text) == [kind |-> "callable", text |-> text]

\* LimitGroup.__init__: a limit string or provider with its context.
\* provider "" is a plain limit string whose parsed items are `items`;
\* scope "" is scope=None; has_methods = FALSE is methods=None; the
\* error_message is None unless the decorator passes one.
LimitGroup(provider, items, key_func, scope, per_method, has_methods, methods, exempt_when, cost_callable, cost, override_defaults) ==
    [provider |-> provider,
     items |-> items,
     key_func |-> key_func,
     scope |-> scope,
     per_method |-> per_method,
     has_methods |-> has_methods,
     \* methods and [m.lower() for m in methods] or methods
     methods |-> {lower(m) : m \in methods},
     error_message |-> NoMessage,
     exempt_when |-> exempt_when,
     cost_callable |-> cost_callable,
     cost |-> cost,
     override_defaults |-> override_defaults,
     \* self.request = None
     request |-> <<>>]

\* The dynamic provider of the tests: the quota depends on the key.
dynamic_limit_provider(key) ==
    IF key = "ipA" THEN <<Item(2, "minute")>> ELSE <<Item(1, "minute")>>

\* LimitGroup.with_request: the group keeps the request it was handed.
with_request(g, rq) ==
    [g EXCEPT !.request = <<[ident |-> rq.ident, path |-> rq.path,
                             method |-> rq.method]>>]

\* LimitGroup.__iter__: the Limits of a group for its request.  The result is
\* [ok, limits]; ok = FALSE is the ValueError of a provider that wants the
\* key while the key function takes no request.
LimitGroupIter(g) ==
    IF g.provider = "byKey"
    THEN IF ~KeyFuncTakesRequest(g.key_func) \/ g.request = <<>>
         THEN [ok |-> FALSE, limits |-> <<>>]
         ELSE LET raw == dynamic_limit_provider(
                             CallKeyFunc(g.key_func, g.request[1]))
              IN [ok |-> TRUE,
                  limits |-> [i \in 1..Len(raw) |-> Limit(raw[i], g)]]
    ELSE [ok |-> TRUE,
          limits |-> [i \in 1..Len(g.items) |-> Limit(g.items[i], g)]]

\* itertools.chain(*groups) for groups of plain limit strings.
RECURSIVE ChainGroups(_)
ChainGroups(groups) ==
    IF groups = <<>> THEN <<>>
    ELSE LET g == Head(groups)
         IN [i \in 1..Len(g.items) |-> Limit(g.items[i], g)]
            \o ChainGroups(Tail(groups))

\* Limiter.__init__: the groups built from the configuration lists.
GroupsOf(items, scope) ==
    [i \in 1..Len(items) |->
        LimitGroup("", <<items[i]>>, cfg.key_func, scope, FALSE, FALSE, {},
                   "None", FALSE, 1, FALSE)]
_default_limits == GroupsOf(cfg.default_limits, "")
_application_limits == GroupsOf(cfg.application_limits, "global")
_in_memory_fallback == GroupsOf(cfg.fallback_limits, "")
\* Fallback that is enabled by its flag alone.
fallback_enabled_by_flag == cfg.fallback_enabled
_in_memory_fallback_enabled == cfg.fallback_enabled \/ Len(cfg.fallback_limits) > 0
\* self._fallback_limiter is not None
_fallback_limiter == _in_memory_fallback_enabled

\* Limiter.limiter: the store that keeps the counters right now, or the
\* RuntimeError the property raises.
limiter ==
    IF _storage_dead /\ _in_memory_fallback_enabled
    THEN (IF ~_fallback_limiter THEN "RuntimeError" ELSE "memory")
    ELSE "redis"

(* --------------------------- configuration ---------------------------- *)

\* LimiterSettings and the constructor's arguments.  handler_async says
\* whether the handler the application registered for RateLimitExceeded is
\* a coroutine function.
Config(enabled, headers_enabled, auto_check, swallow_errors, key_style, fallback_enabled, fallback_limits, default_limits, application_limits) ==
    [enabled |-> enabled,
     headers_enabled |-> headers_enabled,
     auto_check |-> auto_check,
     swallow_errors |-> swallow_errors,
     key_style |-> key_style,
     key_func |-> "get_ipaddr",
     fallback_enabled |-> fallback_enabled,
     fallback_limits |-> fallback_limits,
     default_limits |-> default_limits,
     application_limits |-> application_limits,
     handler_async |-> TRUE,
     \* LimiterASGIMiddleware is installed instead of LimiterMiddleware
     asgi |-> FALSE,
     \* LimiterSettings.retry_after (None, "http-date" or "delta-seconds"),
     \* and the offset of the server's local time zone from GMT in seconds
     retry_after |-> "None",
     tz |-> 0,
     \* the store behind storage_uri still answers check() while its
     \* counter operations fail (a read-only replica, a store out of
     \* memory, increments that time out)
     check_answers |-> FALSE]

(* ---------------------------- the requests ---------------------------- *)

Requests == 1..MaxRequests

IdleRequest ==
    [pc |-> "idle",
     op |-> NoHandler, path |-> "", ident |-> "", method |-> "", foo |-> 0,
     \* the http.response.body messages of the handler's response
     chunks |-> 1,
     \* request.state
     complete |-> FALSE, vrl_set |-> FALSE, vrl |-> <<>>,
     \* the locals of the running _check_request_limit / _evaluate_limits
     in_middleware |-> FALSE, all_limits |-> <<>>, idx |-> 0,
     limit_for_header |-> <<>>, run |-> 0, result |-> "",
     \* history: the calls of _evaluate_limits made for this request, and
     \* how often the running _check_request_limit has called itself
     evals |-> 0, reentries |-> 0,
     \* history: the site whose read of request.state.view_rate_limit
     \* raised AttributeError
     unset_read |-> <<>>,
     \* history: the running evaluation began while the engine was DEGRADED
     degraded |-> FALSE,
     \* history: a storage error of a check was left to swallow_errors
     unabsorbed |-> FALSE,
     \* history: what the except clause of _check_request_limit did with
     \* the last storage error of this request: "fallback", "swallowed" or
     \* "raised"
     last_error |-> "",
     \* the adapters
     inject |-> FALSE, wrappers |-> 0, entered |-> 0,
     site |-> "", retry |-> FALSE, headers |-> 0,
     status |-> 0, handled |-> FALSE,
     \* the Retry-After header the handler sets on its response (<<>> for
     \* none), and the header lines of the response: the values of
     \* X-RateLimit-Limit, X-RateLimit-Remaining, X-RateLimit-Reset and
     \* Retry-After, in the order of the lines
     existing |-> <<>>,
     x_limit |-> <<>>, x_remaining |-> <<>>, x_reset |-> <<>>,
     retry_after |-> <<>>,
     \* window_stats of the running header injection; history: the
     \* Retry-After the last injection found and the one it computed
     stats |-> <<>>, found |-> <<>>, computed |-> <<>>,
     \* _ASGIMiddlewareResponder: whether its send_wrapper is in place, the
     \* messages the response has yet to send, self.initial_message, and
     \* the messages forwarded to the client
     responder |-> FALSE, frames |-> <<>>, initial_message |-> <<>>,
     sent |-> <<>>,
     \* the RateLimitExceeded that _evaluate_limits raised
     exc |-> <<>>,
     \* history: the counters this request incremented
     charges |-> <<>>]

InFlight == {r \in Requests : req[r].pc \notin {"idle", "done"}}

(* ------------------------------- Init --------------------------------- *)

\* An exception, by the name of its class and its message (without the
\* function's repr that ends the message).
Exception(type, message) == [type |-> type, message |-> message]
NoException == Exception("None", "")

InitWith(configs, plans, traffic, parallel) ==
    /\ phase = "setup"
    /\ plan \in plans
    /\ cfg \in configs
    /\ clients = traffic
    /\ concurrency \in parallel
    /\ raised = NoException
    /\ _route_limits = EmptyDict
    /\ _dynamic_route_limits = EmptyDict
    /\ _exempt_routes = {}
    /\ _marked_for_limiting = EmptyDict
    /\ _storage_dead = FALSE
    /\ _check_backend_count = 0
    /\ _last_check_backend = 0
    /\ now = 0
    /\ redis_up = TRUE
    /\ redis = EmptyDict
    /\ memory = EmptyDict
    /\ hitlog = EmptyDict
    /\ rollovers = 0
    /\ outages = 0
    /\ req = [r \in Requests |-> IdleRequest]

(* ---------------------------- registration ---------------------------- *)

\* list(LimitGroup(...)) for a plain limit string.
StaticLimits(g) == [i \in 1..Len(g.items) |-> Limit(g.items[i], g)]

\* Limiter._limit_decorator(...)(func): `a` holds the decorator's arguments,
\* name is the decorated function's qualified name.
_limit_decorator(name, a, shared) ==
    LET _scope == IF shared THEN a.scope ELSE ""
        group == [LimitGroup(a.provider, a.items, a.key_func, _scope,
                             a.per_method, a.has_methods, a.methods,
                             a.exempt_when, a.cost_callable, a.cost,
                             a.override_defaults)
                     EXCEPT !.error_message = a.error_message]
        marked == Get(_marked_for_limiting, name, <<>>)
        \* parsing a malformed limit string raises ValueError, which is
        \* logged and leaves static_limits empty
        static_limits == IF a.malformed THEN <<>> ELSE StaticLimits(group)
        \* the decorated function, with (history) what it was decorated with
        func == [id |-> Len(marked), request_param |-> a.request_param,
                 malformed |-> a.malformed, group |-> group,
                 methods |-> a.methods]
    IN /\ phase = "setup"
       /\ Len(marked) < MaxDecorators
       /\ _marked_for_limiting' =
              Put(_marked_for_limiting, name, Append(marked, func))
       /\ IF a.provider # ""
          THEN /\ _dynamic_route_limits' =
                      Put(_dynamic_route_limits, name,
                          Append(Get(_dynamic_route_limits, name, <<>>), group))
               /\ UNCHANGED _route_limits
          ELSE /\ _route_limits' =
                      Put(_route_limits, name,
                          Get(_route_limits, name, <<>>) \o static_limits)
               /\ UNCHANGED _dynamic_route_limits
       \* a function without a `request` (or `websocket`) parameter: the
       \* decorator raises and the import of the application ends
       /\ IF a.request_param
          THEN UNCHANGED <<phase, raised>>
          ELSE /\ phase' = "failed"
               /\ raised' = Exception("Exception",
                      "No \"request\" or \"websocket\" argument on function")
       /\ UNCHANGED <<cfg, clients, concurrency, _exempt_routes, health,
                      world, stores, req>>

\* Limiter.limit
limit(name, a) == _limit_decorator(name, a, FALSE)

\* shared_limit that drops its scope, as limit does.
shared_limit_without_scope(name, a) == _limit_decorator(name, a, FALSE)

\* Limiter.shared_limit
shared_limit(name, a) == _limit_decorator(name, a, TRUE)

\* Limiter.exempt
exempt(name) ==
    /\ phase = "setup"
    /\ _exempt_routes' = _exempt_routes \cup {name}
    /\ UNCHANGED <<phase, cfg, clients, concurrency, raised, _route_limits, _dynamic_route_limits,
                   _marked_for_limiting, health, world, stores, req>>

\* The application has been imported and starts to serve.
Startup ==
    /\ phase = "setup"
    /\ plan = <<>>
    /\ phase' = "serving"
    /\ UNCHANGED <<plan, cfg, clients, concurrency, raised, registries, health, world,
                   stores, req>>

\* The arguments of a decorator, as limit() and shared_limit() default them.
Args(provider, items, key_func, scope, cost_callable, cost, override_defaults) ==
    [provider |-> provider, items |-> items, key_func |-> key_func,
     scope |-> scope, per_method |-> FALSE, has_methods |-> FALSE,
     methods |-> {}, error_message |-> NoMessage, exempt_when |-> "None",
     cost_callable |-> cost_callable, cost |-> cost,
     override_defaults |-> override_defaults,
     \* the decorated function has a parameter named `request`, and the
     \* limit string is one that the parser of the limits library rejects
     request_param |-> TRUE, malformed |-> FALSE]

(* ----------------------------- the engine ----------------------------- *)

(* A request runs the engine's coroutines in blocks: a block starts when   *)
(* the reply of a counter-store operation arrives and ends when the next   *)
(* one is issued (the store applies it at once; its reply is handled by    *)
(* the next block).  The operators below are the blocks, as functions of   *)
(* the engine state `s` seen by the running request s.rq.                  *)

Engine(rq) ==
    [rq |-> rq,
     \* which middleware class the application installed
     asgi |-> cfg.asgi,
     \* the primary store answers, and (for a request followed to its end)
     \* <<n>> when it becomes unreachable after n more operations
     up |-> redis_up,
     answers |-> <<>>,
     dynamic |-> _dynamic_route_limits,
     dead |-> _storage_dead,
     count |-> _check_backend_count,
     last |-> _last_check_backend,
     redis |-> redis,
     memory |-> memory,
     hitlog |-> hitlog]

Commit(r, s) ==
    /\ req' = [req EXCEPT ![r] = s.rq]
    /\ _dynamic_route_limits' = s.dynamic
    /\ _storage_dead' = s.dead
    /\ _check_backend_count' = s.count
    /\ _last_check_backend' = s.last
    /\ redis' = s.redis
    /\ memory' = s.memory
    /\ hitlog' = s.hitlog

endpoint_func_name(rq) == IF rq.op = NoHandler THEN "" ELSE rq.op

\* The endpoint key with key_style ignored.
_endpoint_key_url(rq) == rq.path

\* _endpoint_key of _check_request_limit
_endpoint_key(rq) ==
    IF cfg.key_style = "url" THEN rq.path ELSE endpoint_func_name(rq)

\* The messages of a response: http.response.start, then the body in
\* `chunks` http.response.body messages.
Messages(chunks) ==
    <<"http.response.start">> \o [i \in 1..chunks |-> "http.response.body"]

\* A response starts to send its messages through send_wrapper.
Respond(s, chunks) ==
    [s EXCEPT !.rq.pc = "send", !.rq.frames = Messages(chunks)]

\* The response reaches the middleware again.  LimiterMiddleware: with
\* should_inject_headers it goes on to inject the headers, otherwise the
\* response is sent as it is.  _ASGIMiddlewareResponder: the response
\* sends its messages through send_wrapper.
ToMiddleware(s) ==
    IF s.asgi /\ s.rq.responder THEN Respond(s, s.rq.chunks)
    ELSE [s EXCEPT !.rq.pc = IF s.rq.inject THEN "middleware_return"
                              ELSE "done"]

\* call_next: the router calls the endpoint, the outermost async_wrapper
\* first; a path that matches no route is answered 404.
CallNext(s) ==
    LET n == Len(Get(_marked_for_limiting, s.rq.op, <<>>))
    IN IF s.rq.op = NoHandler
       THEN ToMiddleware([s EXCEPT !.rq.status = 404])
       ELSE [s EXCEPT !.rq.wrappers = n,
                      !.rq.entered = 0,
                      !.rq.pc = IF n > 0 THEN "wrapper" ELSE "handler"]

\* check_limits where the default handler answers any exception with 429.
ReturnToMiddlewareAnswering429(s, outcome) ==
    IF outcome = "ok"
    THEN CallNext([s EXCEPT !.rq.inject = TRUE])
    ELSE [s EXCEPT !.rq.pc = "exception_handler"]

\* check_limits after _check_request_limit returned ("ok") or raised
\* RateLimitExceeded ("exceeded") or another exception ("error").
ReturnToMiddleware(s, outcome) ==
    IF outcome = "ok"
    THEN CallNext([s EXCEPT !.rq.inject = TRUE])
    ELSE IF outcome = "exceeded"
    THEN IF cfg.handler_async
         THEN [s EXCEPT !.rq.pc = "exception_handler"]
         ELSE CallNext([s EXCEPT !.rq.inject = TRUE])
    \* any other exception: the default handler reads exc.detail
    ELSE [s EXCEPT !.rq.pc = "done", !.rq.status = 500]

\* An async_wrapper that goes on to its handler whatever the check did.
ReturnToWrapperLosingException(s, outcome) ==
    [s EXCEPT !.rq.complete = TRUE,
              !.rq.pc = IF s.rq.wrappers > 0 THEN "wrapper" ELSE "handler"]

\* async_wrapper after _check_request_limit returned or raised: the
\* exception handlers of the application answer an exception.
ReturnToWrapper(s, outcome) ==
    IF outcome = "ok"
    THEN [s EXCEPT !.rq.complete = TRUE,
                   !.rq.pc = IF s.rq.wrappers > 0 THEN "wrapper" ELSE "handler"]
    ELSE IF outcome = "exceeded"
    THEN [s EXCEPT !.rq.pc = "exception_handler"]
    ELSE [s EXCEPT !.rq.pc = "done", !.rq.status = 500]

\* Leaving _check_request_limit towards its caller: check_limits of the
\* middleware (in_middleware) or the decorator's async_wrapper.
Return(s, outcome) ==
    IF s.rq.in_middleware THEN ReturnToMiddleware(s, outcome)
    ELSE ReturnToWrapper(s, outcome)

\* A quota that no request is exempt from.
is_exempt_never(lim, rq) == FALSE

\* The exemption predicates the decorators are given: one that is always
\* true, one that reads the request's foo header, and one that exempts
\* the requests of identity ipA.
exempt_when(name, rq) ==
    IF name = "always" THEN TRUE
    ELSE IF name = "by_header" THEN rq.foo = 2
    ELSE rq.ident = "ipA"

\* Limit.is_exempt
is_exempt(lim, rq) ==
    IF lim.exempt_when = "None" THEN FALSE
    ELSE exempt_when(lim.exempt_when, rq)

\* The key taken from the limiter's key function instead of the quota's.
limit_key_of_default(lim, rq) == CallKeyFunc(cfg.key_func, rq)

\* The identifiers of a quota's counter: [key_prefix?, limit_key, limit_scope].
limit_key(lim, rq) == CallKeyFunc(lim.key_func, rq)
limit_scope(lim, rq) ==
    LET base == IF lim.scope # "" THEN lim.scope ELSE _endpoint_key(rq)
    IN IF lim.per_method THEN base \o ":" \o rq.method ELSE base
limit_args(lim, rq) == <<limit_key(lim, rq), limit_scope(lim, rq)>>

\* The quota is neither skipped by `continue` nor by the empty-value branch.
Chargeable(lim, rq) ==
    /\ ~is_exempt(lim, rq)
    /\ ~(lim.has_methods /\ lower(rq.method) \notin lim.methods)
    /\ limit_key(lim, rq) # ""
    /\ limit_scope(lim, rq) # ""

\* One iteration of the loop of _evaluate_limits raises before its hit:
\* the scope property calls a callable scope with request.endpoint, a name
\* the module does not define (NameError); the exemption predicate, the
\* key function and the cost function read request.headers["foo"], which
\* raises KeyError for a request without that header (foo = 0).
Raises(lim, rq) ==
    IF lim.scope = ScopeFunc THEN TRUE
    ELSE IF lim.exempt_when = "by_header" /\ rq.foo = 0 THEN TRUE
    ELSE IF is_exempt(lim, rq) THEN FALSE
    ELSE IF lim.has_methods /\ lower(rq.method) \notin lim.methods THEN FALSE
    ELSE IF lim.key_func = "by_header" /\ rq.foo = 0 THEN TRUE
    ELSE IF limit_key(lim, rq) = "" \/ limit_scope(lim, rq) = "" THEN FALSE
    ELSE lim.cost_callable /\ rq.foo = 0

RECURSIVE NextChargeable(_, _, _)
NextChargeable(limits, i, rq) ==
    IF i > Len(limits) THEN i
    ELSE IF Raises(limits[i], rq) \/ Chargeable(limits[i], rq) THEN i
    ELSE NextChargeable(limits, i + 1, rq)

\* An order of items by their amount.
ItemLessByAmount(a, b) == a.amount < b.amount

\* RateLimitItem.__lt__ of the limits library orders items by the length
\* of their window.
Seconds(per) == IF per = "minute" THEN 60 ELSE 3600
ItemLess(a, b) == Seconds(a.per) < Seconds(b.per)

\* The cost ignored: every hit costs 1.
CostOfOne(lim, rq) == 1

\* lim.cost(request) if callable(lim.cost) else lim.cost; the costs here
\* are integers, which int(cost) leaves as they are.
CostOf(lim, rq) == IF lim.cost_callable THEN rq.foo ELSE lim.cost

\* An operation reaches the primary store: whether the store answers it, and
\* the engine state once it has.
Answers(s) == s.up /\ s.answers # <<0>>
Answered(s) ==
    IF s.answers # <<>> /\ s.answers # <<0>>
    THEN [s EXCEPT !.answers = <<s.answers[1] - 1>>]
    ELSE s

\* FixedWindowRateLimiter.hit on a store: the counter of (identifiers, item)
\* is incremented by cost whatever the answer, and the answer is whether
\* the incremented counter is within the item's amount.  The primary store
\* raises a storage error while it is unreachable.
CounterKey(item, args) == [ids |-> args, item |-> item]
HitAllowed(post, item) == post <= item.amount
hit(t, store, item, args, cost) ==
    IF store = "redis" /\ ~Answers(t)
    THEN [t EXCEPT !.rq.result = "error"]
    ELSE LET s == IF store = "redis" THEN Answered(t) ELSE t
             k == CounterKey(item, args)
             h == [store |-> store, key |-> k]
             counters == IF store = "redis" THEN s.redis ELSE s.memory
             post == Get(counters, k, 0) + cost
             ord == Get(s.hitlog, h, 0) + 1
             allowed == HitAllowed(post, item)
             charge == [key |-> k, store |-> store, ord |-> ord,
                        post |-> post, cost |-> cost, allowed |-> allowed,
                        run |-> s.rq.run, eval |-> s.rq.evals,
                        window |-> rollovers]
         IN [s EXCEPT
                !.redis = IF store = "redis" THEN Put(@, k, post) ELSE @,
                !.memory = IF store = "memory" THEN Put(@, k, post) ELSE @,
                !.hitlog = Put(@, h, ord),
                !.rq.charges = Append(@, charge),
                !.rq.result = IF allowed THEN "ok" ELSE "denied"]

\* Limiter.limiter, read by the running block.
LimiterOf(s) ==
    IF s.dead /\ _in_memory_fallback_enabled
    THEN (IF ~_fallback_limiter THEN "RuntimeError" ELSE "memory")
    ELSE "redis"

RECURSIVE OnException(_)

\* _evaluate_limits from quota rq.idx on, up to the next hit.
_evaluate_limits(s) ==
    LET rq == s.rq
        j == NextChargeable(rq.all_limits, rq.idx, rq)
    IN IF j > Len(rq.all_limits)
       THEN \* the loop is over and no quota failed
            Return([s EXCEPT !.rq.vrl_set = TRUE,
                             !.rq.vrl = rq.limit_for_header,
                             !.rq.idx = j], "ok")
       ELSE IF Raises(rq.all_limits[j], rq)
       THEN OnException([s EXCEPT !.rq.idx = j])
       ELSE LET lim == rq.all_limits[j]
                args == limit_args(lim, rq)
                entry == [limit |-> lim.limit, args |-> args]
                lfh == IF rq.limit_for_header = <<>>
                          \/ ItemLess(lim.limit, rq.limit_for_header[1].limit)
                       THEN <<entry>>
                       ELSE rq.limit_for_header
            IN hit([s EXCEPT !.rq.idx = j,
                             !.rq.limit_for_header = lfh,
                             !.rq.pc = "hit"],
                   LimiterOf(s), lim.limit, args, CostOf(lim, rq))

\* The dynamic quotas of an operation for a request; a group whose
\* iteration raises ValueError is logged and left out.
RECURSIVE DynamicLimits(_, _)
DynamicLimits(groups, rq) ==
    IF groups = <<>> THEN <<>>
    ELSE LET it == LimitGroupIter(with_request(Head(groups), rq))
         IN (IF it.ok THEN it.limits ELSE <<>>)
            \o DynamicLimits(Tail(groups), rq)

\* limits + dynamic_limits of _check_request_limit.
RouteLimits(rq) ==
    IF rq.in_middleware THEN <<>>
    ELSE Get(_route_limits, endpoint_func_name(rq), <<>>)
         \o DynamicLimits(Get(_dynamic_route_limits, endpoint_func_name(rq), <<>>), rq)

\* `not route_limits and not (in_middleware and marked) or combined_defaults`
UseDefaults(route_limits, marked) ==
    \/ (route_limits = <<>> /\ ~marked)
    \/ \A i \in 1..Len(route_limits) : ~route_limits[i].override_defaults

\* The list of quotas _check_request_limit hands to _evaluate_limits;
\* `fallback` is what the degraded branch left in all_limits.
AllLimits(rq, fallback) ==
    IF fallback # <<>> THEN fallback
    ELSE LET route_limits == RouteLimits(rq)
             marked == rq.in_middleware
                       /\ Has(_marked_for_limiting, endpoint_func_name(rq))
         IN (IF rq.in_middleware THEN ChainGroups(_application_limits) ELSE <<>>)
            \o route_limits
            \o (IF UseDefaults(route_limits, marked)
                THEN ChainGroups(_default_limits) ELSE <<>>)

\* The early return without the test of _exempt_routes.
NoCheckNeededButExempt(rq) == _endpoint_key(rq) = "" \/ ~cfg.enabled

\* The cases where _check_request_limit returns at once (there is no way
\* to register a request filter, so _request_filters stays empty).
NoCheckNeeded(rq) ==
    \/ _endpoint_key(rq) = ""
    \/ ~cfg.enabled
    \/ endpoint_func_name(rq) \in _exempt_routes

StartEvaluation(s, limits) ==
    _evaluate_limits([s EXCEPT !.rq.all_limits = limits,
                               !.rq.idx = 1,
                               !.rq.evals = @ + 1,
                               !.rq.degraded = s.dead,
                               !.rq.limit_for_header = <<>>])

\* _should_check_backend, on the counters in s.
BackendCountReset(count) == IF count > MAX_BACKEND_CHECKS THEN 0 ELSE count
BackoffElapsed(count, last) == now - last > 2 ^ BackendCountReset(count)

\* The loop of _check_request_limit over the operation's dynamic bindings:
\* lim.with_request(request) stores the request in each LimitGroup of
\* self._dynamic_route_limits[endpoint_func_name].
LoadDynamicLimits(s) ==
    LET name == endpoint_func_name(s.rq)
    IN IF ~s.rq.in_middleware /\ Has(s.dynamic, name)
       THEN [s EXCEPT !.dynamic =
                Put(@, name, [i \in 1..Len(s.dynamic[name]) |->
                                 with_request(s.dynamic[name][i], s.rq)])]
       ELSE s

\* _check_request_limit from its entry up to the first store operation.
_check_request_limit(t) ==
    LET rq == t.rq
        s == LoadDynamicLimits(t)
    IN IF NoCheckNeeded(rq) THEN Return(t, "ok")
       ELSE IF /\ s.dead
               /\ _fallback_limiter
               /\ ~(rq.in_middleware
                    /\ Has(_marked_for_limiting, endpoint_func_name(rq)))
       THEN IF BackoffElapsed(s.count, s.last)
            THEN \* await self._storage.check()
                 [Answered(s) EXCEPT !.count = BackendCountReset(s.count) + 1,
                                     !.last = now,
                                     !.rq.pc = "probe",
                                     !.rq.result =
                                         IF Answers(s) \/ cfg.check_answers
                                         THEN "ok" ELSE "error"]
            ELSE StartEvaluation([s EXCEPT !.count = BackendCountReset(s.count)],
                                 AllLimits(rq, ChainGroups(_in_memory_fallback)))
       ELSE StartEvaluation(s, AllLimits(rq, <<>>))

\* The reply of the probe where a recovered store leaves the backoff
\* counter as it is.
ProbedKeepingCount(s) ==
    IF s.rq.result = "ok"
    THEN StartEvaluation([s EXCEPT !.dead = FALSE], AllLimits(s.rq, <<>>))
    ELSE StartEvaluation(s, AllLimits(s.rq, ChainGroups(_in_memory_fallback)))

\* The reply of the probe.
Probed(s) ==
    IF s.rq.result = "ok"
    THEN StartEvaluation([s EXCEPT !.dead = FALSE, !.count = 0],
                         AllLimits(s.rq, <<>>))
    ELSE StartEvaluation(s, AllLimits(s.rq, ChainGroups(_in_memory_fallback)))

\* The except clause that marks the store dead and does not evaluate the
\* request again.
OnExceptionWithoutRetry(s) ==
    LET t == [s EXCEPT !.dead = _in_memory_fallback_enabled \/ s.dead,
                       !.rq.last_error = IF _in_memory_fallback_enabled /\ ~s.dead
                                         THEN "fallback" ELSE "raised"]
    IN IF cfg.swallow_errors THEN Return(t, "ok") ELSE Return(t, "error")

\* The `except Exception` clause of _check_request_limit for an exception
\* that is no RateLimitExceeded.
OnException(s) ==
    LET t == [s EXCEPT !.rq.unabsorbed = TRUE]
    IN IF _in_memory_fallback_enabled /\ ~s.dead
       THEN _check_request_limit([s EXCEPT !.dead = TRUE,
                                           !.rq.last_error = "fallback",
                                           !.rq.reentries = @ + 1])
       ELSE IF cfg.swallow_errors
       THEN Return([t EXCEPT !.rq.last_error = "swallowed"], "ok")
       ELSE Return([t EXCEPT !.rq.last_error = "raised"], "error")

\* str(limit.limit): the text of a RateLimitItem, "1 per 1 minute".
ItemStr(item) == <<item.amount, "per", 1, item.per>>

\* RateLimitExceeded whose detail is always the text of the quota.
RateLimitExceededWithoutMessage(lim) ==
    [limit |-> lim, status_code |-> 429, detail |-> ItemStr(lim.limit)]

\* RateLimitExceeded.__init__: the failed Limit, and as detail its
\* error_message (called when it is callable) or else the quota's text.
RateLimitExceeded(lim) ==
    [limit |-> lim,
     status_code |-> 429,
     detail |-> IF lim.error_message.kind # "None" /\ lim.error_message.text # ""
                THEN <<lim.error_message.text>>
                ELSE ItemStr(lim.limit)]

\* The reply of a hit where a refused hit neither breaks the loop nor
\* raises.
HitRepliedWithoutBreak(s) ==
    IF s.rq.result = "error" THEN OnException(s)
    ELSE _evaluate_limits([s EXCEPT !.rq.idx = @ + 1])

\* The reply of a hit.
HitReplied(s) ==
    LET rq == s.rq
    IN IF rq.result = "ok"
       THEN _evaluate_limits([s EXCEPT !.rq.idx = @ + 1])
       ELSE IF rq.result = "denied"
       THEN LET lim == rq.all_limits[rq.idx]
                entry == [limit |-> lim.limit, args |-> limit_args(lim, rq)]
            IN Return([s EXCEPT !.rq.limit_for_header = <<entry>>,
                                !.rq.vrl_set = TRUE,
                                !.rq.vrl = <<entry>>,
                                !.rq.exc = <<RateLimitExceeded(lim)>>],
                      "exceeded")
       ELSE OnException(s)

(* --------------------------- header injection ------------------------- *)

\* send_wrapper's last two lines for an http.response.body message: it
\* sends self.initial_message and then the message.
Forward(s) ==
    LET rq == s.rq
        start == [type |-> rq.initial_message[1], status |-> rq.status,
                  headers |-> rq.headers]
        body == [type |-> Head(rq.frames)]
        rest == Tail(rq.frames)
    IN [s EXCEPT !.rq.sent = @ \o <<start, body>>,
                 !.rq.frames = rest,
                 !.rq.pc = IF rest = <<>> THEN "done" ELSE "send"]

\* Where the response goes once _inject_headers / _inject_asgi_headers has
\* returned ("ok") or raised ("raise") at the site that called it: an
\* async_wrapper after its handler, rate_limit_exceeded_handler, the
\* middleware after call_next, or send_wrapper.
AfterInject(s, outcome) ==
    LET rq == s.rq
    IN IF outcome = "raise"
       THEN \* the exception ends the request: the client is answered 500
            \* unless the start of the response has been sent already
            [s EXCEPT !.rq.pc = "done",
                      !.rq.status = IF rq.site = "send" /\ rq.sent # <<>>
                                    THEN @ ELSE 500]
       ELSE IF rq.site = "wrapper"
       THEN IF rq.entered > 1
            THEN [s EXCEPT !.rq.entered = @ - 1, !.rq.pc = "wrapper_return"]
            ELSE ToMiddleware([s EXCEPT !.rq.entered = 0])
       ELSE IF rq.site = "handler"
       THEN IF rq.in_middleware
            THEN \* the error_response of check_limits
                 IF s.asgi THEN Respond(s, 1) ELSE [s EXCEPT !.rq.pc = "done"]
            ELSE ToMiddleware(s)
       ELSE IF rq.site = "send" THEN Forward(s)
       ELSE [s EXCEPT !.rq.pc = "done"]

\* time.time() when time.monotonic() reads t: the monotonic clock starts
\* with the machine, the epoch clock in 1970.
BootEpoch == 100000
time_time(t) == BootEpoch + t

Max(a, b) == IF a >= b THEN a ELSE b

\* The values of Retry-After: an http-date, by the instant (in seconds of
\* the epoch) its text names in GMT, or a number of seconds.
\* email.utils.formatdate(t, usegmt=True) and str(n).
formatdate(t) == [http_date |-> t]
str(n) == [seconds |-> n]
\* dateutil's parse(value).timetuple(): the calendar fields the text
\* names, which are those of its instant in GMT.
timetuple(value) == [gmt |-> value.http_date]
\* time.mktime reads calendar fields as local time, which is cfg.tz
\* seconds ahead of GMT.
mktime(fields) == fields.gmt - cfg.tz

\* Limiter._determine_retry_time
_determine_retry_time(retry_header_value) ==
    IF cfg.retry_after = "http-date"
    THEN mktime(timetuple(retry_header_value))
    ELSE now + retry_header_value.seconds

\* FixedWindowRateLimiter.get_window_stats on a store: what is left of the
\* item's amount, and the time.time() at which the counter expires (the
\* counters of the window were created when the clock read 0).
WindowStats(s, store, item, args) ==
    LET counters == IF store = "redis" THEN s.redis ELSE s.memory
    IN [remaining |-> Max(0, item.amount - Get(counters, CounterKey(item, args), 0)),
        reset_time |-> time_time(0) + Seconds(item.per)]

\* await self.limiter.get_window_stats(current_limit[0], *current_limit[1])
get_window_stats(t) ==
    LET failed == LimiterOf(t) = "redis" /\ ~Answers(t)
        s == IF LimiterOf(t) = "redis" /\ ~failed THEN Answered(t) ELSE t
        current_limit == s.rq.vrl[1]
    IN [s EXCEPT !.rq.pc = "stats",
                 !.rq.result = IF failed THEN "error" ELSE "ok",
                 !.rq.stats = IF failed THEN <<>>
                              ELSE <<WindowStats(s, LimiterOf(s),
                                                 current_limit.limit,
                                                 current_limit.args)>>]

\* The try block of _inject_headers / _inject_asgi_headers after the stats
\* lookup: _inject_headers (rate_limit_exceeded_handler, LimiterMiddleware)
\* appends a line for each X-RateLimit header, _inject_asgi_headers (the
\* async_wrapper, send_wrapper) sets it; both set Retry-After.
WriteHeaders(s) ==
    LET rq == s.rq
        current_limit == rq.vrl[1]
        window_stats == rq.stats[1]
        reset_in == 1 + window_stats.reset_time
        appends == rq.site \in {"handler", "middleware"}
        existing_retry_after_header == rq.retry_after
        later == IF existing_retry_after_header # <<>>
                 THEN Max(_determine_retry_time(existing_retry_after_header[1]),
                          reset_in)
                 ELSE reset_in
        http_date == cfg.retry_after = "http-date"
    IN [s EXCEPT
          !.rq.headers = @ + 1,
          !.rq.x_limit = IF appends THEN Append(@, current_limit.limit.amount)
                         ELSE <<current_limit.limit.amount>>,
          !.rq.x_remaining = IF appends THEN Append(@, window_stats.remaining)
                             ELSE <<window_stats.remaining>>,
          !.rq.x_reset = IF appends THEN Append(@, reset_in) ELSE <<reset_in>>,
          !.rq.retry_after = <<IF http_date THEN formatdate(later)
                               ELSE str(later - now)>>,
          !.rq.found = existing_retry_after_header,
          !.rq.computed = <<IF http_date THEN formatdate(reset_in)
                            ELSE str(reset_in - now)>>,
          !.rq.stats = <<>>]

\* _inject_headers / _inject_asgi_headers up to the stats lookup.
_inject_headers(s, site) ==
    LET t == [s EXCEPT !.rq.site = site, !.rq.retry = FALSE]
    IN IF cfg.enabled /\ cfg.headers_enabled /\ s.rq.vrl # <<>>
       THEN get_window_stats(t)
       ELSE AfterInject(t, "ok")

\* The reply of the stats lookup: the headers are written, or the except
\* clause runs (retry marks the call made from inside that clause).
StatsReplied(s) ==
    LET rq == s.rq
        tail == IF cfg.swallow_errors THEN "ok" ELSE "raise"
    IN IF rq.result = "ok"
       THEN AfterInject(WriteHeaders(s), IF rq.retry THEN tail ELSE "ok")
       ELSE IF _in_memory_fallback # <<>> /\ ~s.dead
       THEN get_window_stats([s EXCEPT !.dead = TRUE, !.rq.retry = TRUE])
       ELSE AfterInject(s, tail)

(* ------------------------------ adapters ------------------------------ *)

\* middleware._should_exempt
_should_exempt(handler) ==
    \/ handler = NoHandler
    \/ handler \in _exempt_routes
    \/ Has(_route_limits, handler)

\* A request of a client, as it arrives.
NewRequest(c) ==
    [IdleRequest EXCEPT !.op = c.op, !.path = c.path, !.ident = c.ident,
                        !.method = c.method, !.foo = c.foo,
                        !.chunks = c.chunks,
                        !.existing = c.retry_after]

\* Reading request.state.view_rate_limit raises AttributeError when no
\* check has recorded it; otherwise the headers are injected.
ReadViewRateLimit(s, site) ==
    IF ~s.rq.vrl_set
    THEN [s EXCEPT !.rq.pc = "done", !.rq.status = 500,
                   !.rq.unset_read = <<site>>]
    ELSE _inject_headers(s, site)

\* LimiterMiddleware.dispatch / _ASGIMiddlewareResponder.__call__ up to the
\* first store operation of check_limits, or up to the endpoint.
dispatch(s) ==
    IF ~cfg.enabled \/ _should_exempt(s.rq.op) THEN CallNext(s)
    ELSE IF cfg.auto_check /\ ~s.rq.complete
    THEN _check_request_limit(
             [s EXCEPT !.rq.in_middleware = TRUE,
                       !.rq.responder = TRUE,
                       !.rq.reentries = 0,
                       !.rq.run = @ + 1])
    ELSE CallNext([s EXCEPT !.rq.responder = TRUE])

\* A request arrives (requests take the slots in order) and enters the
\* middleware.
Dispatch(r) ==
    /\ phase = "serving"
    /\ req[r].pc = "idle"
    /\ \A q \in Requests : q < r => req[q].pc # "idle"
    /\ Cardinality(InFlight) < concurrency
    /\ \E c \in clients : Commit(r, dispatch(Engine(NewRequest(c))))
    /\ UNCHANGED <<phase, plan, cfg, clients, concurrency, raised, static_registries, world>>

\* async_wrapper up to the first store operation of its check, or up to
\* the call of the function it wraps.
async_wrapper(t) ==
    LET s == [t EXCEPT !.rq.wrappers = @ - 1, !.rq.entered = @ + 1]
    IN IF cfg.enabled /\ cfg.auto_check /\ ~s.rq.complete
       THEN _check_request_limit(
                [s EXCEPT !.rq.in_middleware = FALSE,
                          !.rq.reentries = 0,
                          !.rq.run = @ + 1])
       ELSE [s EXCEPT !.rq.pc = IF s.rq.wrappers > 0 THEN "wrapper"
                                ELSE "handler"]

\* The next async_wrapper inwards is entered.
Wrapper(r) ==
    /\ req[r].pc = "wrapper"
    /\ Commit(r, async_wrapper(Engine(req[r])))
    /\ UNCHANGED <<phase, plan, cfg, clients, concurrency, raised, static_registries, world>>

\* The reply of the probe reaches _check_request_limit.
ProbeReply(r) ==
    /\ req[r].pc = "probe"
    /\ Commit(r, Probed(Engine(req[r])))
    /\ UNCHANGED <<phase, plan, cfg, clients, concurrency, raised, static_registries, world>>

\* The reply of a hit reaches _evaluate_limits.
HitReply(r) ==
    /\ req[r].pc = "hit"
    /\ Commit(r, HitReplied(Engine(req[r])))
    /\ UNCHANGED <<phase, plan, cfg, clients, concurrency, raised, static_registries, world>>

\* The operation's own handler answers, and the response returns through
\* the async_wrappers: with headers enabled each of them injects headers.
endpoint(t) ==
    LET s == [t EXCEPT !.rq.status = 200, !.rq.handled = TRUE,
                       !.rq.retry_after = t.rq.existing]
    IN IF s.rq.entered > 0 /\ cfg.headers_enabled
       THEN ReadViewRateLimit(s, "wrapper")
       ELSE ToMiddleware(s)

Handler(r) ==
    /\ req[r].pc = "handler"
    /\ Commit(r, endpoint(Engine(req[r])))
    /\ UNCHANGED <<phase, plan, cfg, clients, concurrency, raised, static_registries, world>>

\* The next async_wrapper outwards, after the function it wraps returned.
WrapperReturn(r) ==
    /\ req[r].pc = "wrapper_return"
    /\ Commit(r, ReadViewRateLimit(Engine(req[r]), "wrapper"))
    /\ UNCHANGED <<phase, plan, cfg, clients, concurrency, raised, static_registries, world>>

\* rate_limit_exceeded_handler answers 429 and injects the headers; a
\* synchronous handler registered in its place answers 429 and cannot
\* await the header injection.
exception_handler(t) ==
    LET s == [t EXCEPT !.rq.status = 429]
    IN IF cfg.handler_async THEN ReadViewRateLimit(s, "handler")
       ELSE AfterInject([s EXCEPT !.rq.site = "handler"], "ok")

rate_limit_exceeded_handler(r) ==
    /\ req[r].pc = "exception_handler"
    /\ Commit(r, exception_handler(Engine(req[r])))
    /\ UNCHANGED <<phase, plan, cfg, clients, concurrency, raised, static_registries, world>>

\* The middleware injects the headers after call_next returned.
MiddlewareReturn(r) ==
    /\ req[r].pc = "middleware_return"
    /\ Commit(r, ReadViewRateLimit(Engine(req[r]), "middleware"))
    /\ UNCHANGED <<phase, plan, cfg, clients, concurrency, raised, static_registries, world>>

\* _ASGIMiddlewareResponder.send_wrapper for the next message of the
\* response, up to the stats lookup of the header injection.
send_wrapper(s) ==
    IF Head(s.rq.frames) = "http.response.start"
    THEN [s EXCEPT !.rq.initial_message = <<Head(s.rq.frames)>>,
                   !.rq.frames = Tail(@)]
    ELSE IF s.rq.inject THEN ReadViewRateLimit(s, "send")
    ELSE Forward(s)

\* The response sends its next message.
SendWrapper(r) ==
    /\ req[r].pc = "send"
    /\ Commit(r, send_wrapper(Engine(req[r])))
    /\ UNCHANGED <<phase, plan, cfg, clients, concurrency, raised, static_registries, world>>

\* The reply of the stats lookup reaches the header injection.
StatsReply(r) ==
    /\ req[r].pc = "stats"
    /\ Commit(r, StatsReplied(Engine(req[r])))
    /\ UNCHANGED <<phase, plan, cfg, clients, concurrency, raised, static_registries, world>>

(* ---------------------------- environment ----------------------------- *)

\* The primary store becomes unreachable, and reachable again.
StoreFail ==
    /\ phase = "serving"
    /\ redis_up
    /\ outages < MaxOutages
    /\ redis_up' = FALSE
    /\ outages' = outages + 1
    /\ UNCHANGED <<phase, plan, cfg, clients, concurrency, raised, registries, health, now,
                   rollovers, stores, req>>

StoreRecover ==
    /\ ~redis_up
    /\ redis_up' = TRUE
    /\ UNCHANGED <<phase, plan, cfg, clients, concurrency, raised, registries, health, now,
                   rollovers, outages, stores, req>>

\* A second passes.
Tick ==
    /\ phase = "serving"
    /\ now < MaxTime
    /\ now' = now + 1
    /\ UNCHANGED <<phase, plan, cfg, clients, concurrency, raised, registries, health, redis_up,
                   rollovers, outages, stores, req>>

\* The window ends: every counter of it expires.
WindowRollover ==
    /\ phase = "serving"
    /\ rollovers < MaxRollovers
    /\ rollovers' = rollovers + 1
    /\ redis' = EmptyDict
    /\ memory' = EmptyDict
    /\ hitlog' = EmptyDict
    /\ UNCHANGED <<phase, plan, cfg, clients, concurrency, raised, registries, health, now,
                   redis_up, outages, req>>

\* Limiter.reset: the primary store drops its counters (and raises when it
\* is unreachable); the health flags are not touched.
reset ==
    /\ phase = "serving"
    /\ redis_up
    /\ redis' = EmptyDict
    /\ hitlog' = [h \in {x \in DOMAIN hitlog : x.store # "redis"} |-> hitlog[h]]
    /\ UNCHANGED <<phase, plan, cfg, clients, concurrency, raised, registries,
                   health, world, memory, req>>

\* The increment of request r, which the store does not answer, times out:
\* more than a second has passed when the error reaches the engine.
Timeout(r) ==
    /\ req[r].pc = "hit"
    /\ req[r].result = "error"
    /\ now + 2 <= MaxClock
    /\ now' = now + 2
    /\ UNCHANGED <<phase, plan, cfg, clients, concurrency, raised, registries, health, redis_up,
                   rollovers, outages, stores, req>>

\* Time passes while the engine is DEGRADED, until the backoff allows the
\* next probe.
SleepUntilDue ==
    /\ phase = "serving"
    /\ _storage_dead
    /\ LET due == _last_check_backend + 2 ^ _check_backend_count + 1
       IN /\ _check_backend_count <= MAX_BACKEND_CHECKS
          /\ now < due
          /\ due <= MaxClock
          /\ now' = due
    /\ UNCHANGED <<phase, plan, cfg, clients, concurrency, raised, registries, health, redis_up,
                   rollovers, outages, stores, req>>

\* Time passes while the primary store stays unreachable.
Sleep ==
    /\ phase = "serving"
    /\ ~redis_up
    /\ \E t \in (now + 1)..MaxClock : now' = t
    /\ UNCHANGED <<phase, plan, cfg, clients, concurrency, raised, registries, health, redis_up,
                   rollovers, outages, stores, req>>

\* Limiter._should_check_backend, called by the check of a request while
\* the engine is DEGRADED and the store is unreachable: when it answers
\* True the probe that follows fails and changes nothing more.
_should_check_backend ==
    LET count == BackendCountReset(_check_backend_count)
        elapsed == BackoffElapsed(_check_backend_count, _last_check_backend)
    IN /\ phase = "serving"
       /\ _storage_dead /\ _fallback_limiter
       /\ ~redis_up
       /\ _check_backend_count' = IF elapsed THEN count + 1 ELSE count
       /\ _last_check_backend' = IF elapsed THEN now ELSE _last_check_backend
       /\ UNCHANGED <<phase, plan, cfg, clients, concurrency, raised, registries, _storage_dead,
                      world, stores, req>>

(* ------------------------------- setup -------------------------------- *)

\* One decorator application of the plan.
Step(kind, name, args) == [kind |-> kind, name |-> name, args |-> args]
NoArgs == Args("", <<>>, "get_ipaddr", "", FALSE, 1, TRUE)

ApplyLimit ==
    /\ plan # <<>>
    /\ Head(plan).kind = "limit"
    /\ limit(Head(plan).name, Head(plan).args)
    /\ plan' = Tail(plan)

ApplySharedLimit ==
    /\ plan # <<>>
    /\ Head(plan).kind = "shared_limit"
    /\ shared_limit(Head(plan).name, Head(plan).args)
    /\ plan' = Tail(plan)

ApplyExempt ==
    /\ plan # <<>>
    /\ Head(plan).kind = "exempt"
    /\ exempt(Head(plan).name)
    /\ plan' = Tail(plan)

(* --------------------------- specifications --------------------------- *)

\* limit("N/minute", ...) with the defaults of Limiter.limit.
Quota(n) == Args("", <<Item(n, "minute")>>, "get_ipaddr", "", FALSE, 1, TRUE)
QuotaCost(n, c) == Args("", <<Item(n, "minute")>>, "get_ipaddr", "", FALSE, c, TRUE)
QuotaCallableCost(n) == Args("", <<Item(n, "minute")>>, "get_ipaddr", "", TRUE, 1, TRUE)
QuotaForAll(n) == Args("", <<Item(n, "minute")>>, "const", "", FALSE, 1, TRUE)
SharedQuota(n, scope) == Args("", <<Item(n, "minute")>>, "get_ipaddr", scope, FALSE, 1, TRUE)
DynamicQuota == Args("byKey", <<>>, "get_ipaddr", "", FALSE, 1, TRUE)

\* A client request.
Client(op, path, ident, foo) ==
    [op |-> op, path |-> path, ident |-> ident, method |-> "GET", foo |-> foo,
     chunks |-> 1, retry_after |-> <<>>]
\* A client request whose response is streamed in several body messages.
StreamingClient(op, path, ident, chunks) ==
    [Client(op, path, ident, 1) EXCEPT !.chunks = chunks]

\* The steps of a request on an operation with static quotas while the
\* primary store is healthy.
ServeQuota(r) ==
    \/ Dispatch(r)
    \/ Wrapper(r)
    \/ HitReply(r)
    \/ Handler(r)
    \/ rate_limit_exceeded_handler(r)

\* LimiterSettings without default, application-wide and fallback quotas:
\* auto_check on, errors not swallowed.
Plain(key_style) ==
    Config(TRUE, FALSE, TRUE, FALSE, key_style, FALSE, <<>>, <<>>, <<>>)

\* A healthy primary store, one quota on one operation.
ConfigsQuota == {Plain("url")}
PlansQuota ==
    {<<Step("limit", "routes.t1", Quota(n))>> : n \in 1..2}
TrafficQuota ==
    {Client("routes.t1", "/t1/a", i, 1) : i \in Identities}
InitQuota == InitWith(ConfigsQuota, PlansQuota, TrafficQuota, 1..MaxInFlight)
NextQuota ==
    \/ ApplyLimit
    \/ Startup
    \/ WindowRollover
    \/ \E r \in Requests : ServeQuota(r)
SpecQuota == InitQuota /\ [][NextQuota]_vars

\* The same steps within one window.
NextOneWindow ==
    \/ ApplyLimit
    \/ Startup
    \/ \E r \in Requests : ServeQuota(r)

\* One quota with a cost: static costs 1 and 2, and a cost computed from
\* the request's `foo` header.
PlansCost ==
    {<<Step("limit", "routes.t1", QuotaCost(n, c))>> : n \in 2..3, c \in 1..2}
    \cup {<<Step("limit", "routes.t1", QuotaCallableCost(3))>>}
TrafficCost ==
    {Client("routes.t1", "/t1/a", "ipA", foo) : foo \in 1..2}
    \cup {Client("routes.t1", "/t1/a", "ipB", 2)}
InitCost == InitWith(ConfigsQuota, PlansCost, TrafficCost, {MaxInFlight})
SpecCost == InitCost /\ [][NextOneWindow]_vars

\* One quota on an operation served under two paths, both key styles.
ConfigsKeyStyle == {Plain("url"), Plain("endpoint")}
TrafficKeyStyle ==
    {Client("routes.t1", p, "ipA", 1) : p \in PathsOf("routes.t1")}
    \cup {Client("routes.t1", "/t1/a", "ipB", 1)}
InitKeyStyle ==
    InitWith(ConfigsKeyStyle, PlansQuota, TrafficKeyStyle, {MaxInFlight})
SpecKeyStyle == InitKeyStyle /\ [][NextOneWindow]_vars

\* Two operations bound with shared_limit: to one scope with one quota, to
\* one scope with different quotas, and to different scopes.
PlansShared ==
    {<<Step("shared_limit", "routes.t1", SharedQuota(n, "grp")),
       Step("shared_limit", "routes.t2", SharedQuota(m, "grp"))>> :
        n \in 1..2, m \in 1..2}
    \cup {<<Step("shared_limit", "routes.t1", SharedQuota(1, "grp")),
            Step("shared_limit", "routes.t2", SharedQuota(1, "other"))>>}
TrafficShared ==
    {Client(op, CHOOSE p \in PathsOf(op) : TRUE, "ipA", 1) : op \in Ops}
    \cup {Client("routes.t2", "/t2/a", "ipB", 1)}
InitShared ==
    InitWith(ConfigsKeyStyle, PlansShared, TrafficShared, 1..MaxInFlight)
NextShared ==
    \/ ApplySharedLimit
    \/ Startup
    \/ \E r \in Requests : ServeQuota(r)
SpecShared == InitShared /\ [][NextShared]_vars

\* A per-identity quota P and a quota G for all identities stacked on one
\* operation, in both orders of decoration.
PlansStacked ==
    {<<Step("limit", "routes.t1", Quota(P)),
       Step("limit", "routes.t1", QuotaForAll(G))>> : P \in 1..2, G \in 1..2}
    \cup {<<Step("limit", "routes.t1", QuotaForAll(G)),
            Step("limit", "routes.t1", Quota(P))>> : P \in 1..2, G \in 1..2}
InitStacked == InitWith(ConfigsQuota, PlansStacked, TrafficQuota, {MaxInFlight})
SpecStacked == InitStacked /\ [][NextOneWindow]_vars

\* The steps of a request with the middleware's check and the headers.
ServeAll(r) ==
    \/ ServeQuota(r)
    \/ MiddlewareReturn(r)
    \/ StatsReply(r)

\* An exempt operation, decorated or not, next to an undecorated one, with
\* headers enabled, default, application-wide and fallback quotas and a
\* primary store that may fail, so that the engine becomes DEGRADED.
ConfigsExempt ==
    {Config(TRUE, TRUE, TRUE, FALSE, "url", TRUE,
            <<Item(1, "minute")>>, <<Item(2, "minute")>>, <<Item(2, "minute")>>)}
PlansExempt ==
    {<<Step("exempt", "routes.t1", NoArgs)>>,
     <<Step("limit", "routes.t1", Quota(1)),
       Step("exempt", "routes.t1", NoArgs)>>,
     <<Step("limit", "routes.t1", DynamicQuota),
       Step("exempt", "routes.t1", NoArgs)>>}
TrafficExempt ==
    {Client("routes.t1", "/t1/a", "ipA", 1),
     Client("routes.t2", "/t2/a", "ipA", 1)}
InitExempt == InitWith(ConfigsExempt, PlansExempt, TrafficExempt, {MaxInFlight})
NextExempt ==
    \/ ApplyLimit
    \/ ApplyExempt
    \/ Startup
    \/ StoreFail
    \/ StoreRecover
    \/ \E r \in Requests : ServeAll(r)
SpecExempt == InitExempt /\ [][NextExempt]_vars

\* A limiter constructed with enabled=False, with and without headers, on
\* decorated and undecorated operations, whatever the store does.
Disabled(headers_enabled) ==
    Config(FALSE, headers_enabled, TRUE, FALSE, "url", TRUE,
           <<Item(1, "minute")>>, <<Item(1, "minute")>>, <<Item(1, "minute")>>)
ConfigsDisabled == {Disabled(h) : h \in BOOLEAN}
PlansDisabled ==
    {<<Step("limit", "routes.t1", Quota(1))>>,
     <<Step("limit", "routes.t1", DynamicQuota)>>,
     <<Step("limit", "routes.t1", Quota(1)),
       Step("limit", "routes.t1", QuotaForAll(1))>>}
TrafficDisabled ==
    {Client(op, CHOOSE p \in PathsOf(op) : TRUE, i, 1) :
        op \in Ops, i \in Identities}
InitDisabled ==
    InitWith(ConfigsDisabled, PlansDisabled, TrafficDisabled, 1..MaxInFlight)
NextDisabled ==
    \/ ApplyLimit
    \/ Startup
    \/ StoreFail
    \/ StoreRecover
    \/ \E r \in Requests :
         \/ Dispatch(r)
         \/ Wrapper(r)
         \/ Handler(r)
SpecDisabled == InitDisabled /\ [][NextDisabled]_vars

\* Every kind of registration on one operation (static only, dynamic only,
\* stacked, static with dynamic, none), without and with default and
\* application-wide quotas, on a healthy store.
WithDefaults(default_limits, application_limits) ==
    Config(TRUE, FALSE, TRUE, FALSE, "url", FALSE, <<>>,
           default_limits, application_limits)
ConfigsOnce ==
    {Plain("url"),
     WithDefaults(<<Item(1, "minute")>>, <<>>),
     WithDefaults(<<>>, <<Item(2, "minute")>>)}
PlansOnce ==
    {<<>>,
     <<Step("limit", "routes.t1", Quota(1))>>,
     <<Step("limit", "routes.t1", DynamicQuota)>>,
     <<Step("limit", "routes.t1", Quota(2)),
       Step("limit", "routes.t1", QuotaForAll(2))>>,
     <<Step("limit", "routes.t1", Quota(1)),
       Step("limit", "routes.t1", DynamicQuota)>>}
InitOnce == InitWith(ConfigsOnce, PlansOnce, TrafficQuota, 1..MaxInFlight)
NextOnce ==
    \/ ApplyLimit
    \/ Startup
    \/ \E r \in Requests :
         \/ ServeQuota(r)
         \/ MiddlewareReturn(r)
SpecOnce == InitOnce /\ [][NextOnce]_vars

\* Default, application-wide and fallback quotas, on an undecorated
\* operation, on one with a static quota and on one with a dynamic quota
\* only, with a primary store that fails and recovers while time passes, so
\* that the engine becomes DEGRADED, probes and becomes HEALTHY again.
ConfigsDegraded ==
    {Config(TRUE, FALSE, TRUE, FALSE, "url", TRUE,
            <<Item(1, "minute")>>, <<Item(2, "minute")>>, app) :
        app \in {<<>>, <<Item(3, "minute")>>}}
PlansDegraded ==
    {<<>>,
     <<Step("limit", "routes.t1", Quota(2))>>,
     <<Step("limit", "routes.t1", DynamicQuota)>>}
TrafficDegraded == {Client("routes.t1", "/t1/a", "ipA", 1)}
InitDegraded ==
    InitWith(ConfigsDegraded, PlansDegraded, TrafficDegraded, {1})
NextDegraded ==
    \/ ApplyLimit
    \/ Startup
    \/ StoreFail
    \/ StoreRecover
    \/ Tick
    \/ \E r \in Requests :
         \/ ServeQuota(r)
         \/ ProbeReply(r)
         \/ MiddlewareReturn(r)
SpecDegraded == InitDegraded /\ [][NextDegraded]_vars

\* The engine just after a request met the failing store and marked it
\* dead; from then on the store stays unreachable, time passes and the
\* checks of later requests ask _should_check_backend.
InitBackoff ==
    /\ phase = "serving"
    /\ plan = <<>>
    /\ cfg \in ConfigsDegraded
    /\ clients = TrafficDegraded
    /\ concurrency = 1
    /\ raised = NoException
    /\ _route_limits = EmptyDict
    /\ _dynamic_route_limits = EmptyDict
    /\ _exempt_routes = {}
    /\ _marked_for_limiting = EmptyDict
    /\ _storage_dead = TRUE
    /\ _check_backend_count = 0
    /\ _last_check_backend = 0
    /\ now = 0
    /\ redis_up = FALSE
    /\ redis = EmptyDict
    /\ memory = EmptyDict
    /\ hitlog = EmptyDict
    /\ rollovers = 0
    /\ outages = 1
    /\ req = [r \in Requests |-> IdleRequest]
NextBackoff ==
    \/ Sleep
    \/ _should_check_backend
SpecBackoff == InitBackoff /\ [][NextBackoff]_vars

\* The handler registered for RateLimitExceeded, asynchronous or
\* synchronous, with errors swallowed or not, default and fallback quotas,
\* on an undecorated operation (the middleware checks it) and on one with
\* a static quota (its async_wrapper checks it), with a store that may fail.
WithHandler(c, handler_async, swallow_errors) ==
    [c EXCEPT !.handler_async = handler_async,
              !.swallow_errors = swallow_errors]
ConfigsDenial ==
    {WithHandler(Config(TRUE, FALSE, TRUE, FALSE, "url", TRUE,
                        <<Item(1, "minute")>>, <<Item(1, "minute")>>, <<>>),
                 h, sw) : h \in BOOLEAN, sw \in BOOLEAN}
PlansDenial ==
    {<<>>, <<Step("limit", "routes.t1", Quota(1))>>}
InitDenial == InitWith(ConfigsDenial, PlansDenial, TrafficDegraded, {MaxInFlight})
NextDenial ==
    \/ ApplyLimit
    \/ Startup
    \/ StoreFail
    \/ \E r \in Requests :
         \/ ServeQuota(r)
         \/ MiddlewareReturn(r)
SpecDenial == InitDenial /\ [][NextDenial]_vars

\* Storage errors during the check: errors swallowed or not, with and
\* without a fallback, headers on and off, on an undecorated operation
\* and on one with a static quota, with a store that fails.
ConfigsErrors ==
    {Config(TRUE, h, TRUE, sw, "url", FALSE, fb, <<Item(1, "minute")>>, <<>>) :
        h \in BOOLEAN, sw \in BOOLEAN, fb \in {<<>>, <<Item(1, "minute")>>}}
InitErrors == InitWith(ConfigsErrors, PlansDenial, TrafficDegraded, {MaxInFlight})
NextErrors ==
    \/ ApplyLimit
    \/ Startup
    \/ StoreFail
    \/ \E r \in Requests : ServeAll(r)
SpecErrors == InitErrors /\ [][NextErrors]_vars

\* LimiterASGIMiddleware with headers enabled and a default quota, on an
\* undecorated operation whose response has one body message or several.
ConfigsASGI ==
    {[Config(TRUE, TRUE, TRUE, FALSE, "url", FALSE, <<>>,
             <<Item(2, "minute")>>, <<>>) EXCEPT !.asgi = TRUE]}
TrafficASGI ==
    {StreamingClient("routes.t1", "/t1/a", "ipA", n) : n \in 1..MaxChunks}
InitASGI == InitWith(ConfigsASGI, {<<>>}, TrafficASGI, {MaxInFlight})
NextASGI ==
    \/ Startup
    \/ \E r \in Requests :
         \/ Dispatch(r)
         \/ HitReply(r)
         \/ Handler(r)
         \/ rate_limit_exceeded_handler(r)
         \/ StatsReply(r)
         \/ SendWrapper(r)
SpecASGI == InitASGI /\ [][NextASGI]_vars

\* Decorators applied to a handler without a `request` parameter, and
\* with a limit string that cannot be parsed, next to a well-formed one,
\* without and with a default quota.
WithoutRequestParam(a) == [a EXCEPT !.request_param = FALSE]
Malformed(a) == [a EXCEPT !.malformed = TRUE, !.items = <<>>]
ConfigsDecoration == {Plain("url"), WithDefaults(<<Item(1, "minute")>>, <<>>)}
PlansDecoration ==
    {<<Step("limit", "routes.t1", Quota(1))>>,
     <<Step("limit", "routes.t1", WithoutRequestParam(Quota(1)))>>,
     <<Step("shared_limit", "routes.t1",
            WithoutRequestParam(SharedQuota(1, "grp")))>>,
     <<Step("limit", "routes.t1", Malformed(Quota(1)))>>}
InitDecoration ==
    InitWith(ConfigsDecoration, PlansDecoration, TrafficQuota, {MaxInFlight})
NextDecoration ==
    \/ ApplyLimit
    \/ ApplySharedLimit
    \/ Startup
    \/ \E r \in Requests : ServeQuota(r)
SpecDecoration == InitDecoration /\ [][NextDecoration]_vars

\* Headers enabled on a healthy store, LimiterMiddleware installed: an
\* operation with one static quota, with two stacked static quotas, or
\* with a dynamic quota only.
ConfigsHeaders ==
    {Config(TRUE, TRUE, TRUE, FALSE, "url", FALSE, <<>>, <<>>, <<>>)}
PlansHeaders ==
    {<<Step("limit", "routes.t1", Quota(n))>> : n \in 1..2}
    \cup {<<Step("limit", "routes.t1", Quota(2)),
            Step("limit", "routes.t1", QuotaForAll(1))>>,
          <<Step("limit", "routes.t1", DynamicQuota)>>}
InitHeaders == InitWith(ConfigsHeaders, PlansHeaders, TrafficQuota, {MaxInFlight})
NextHeaders ==
    \/ ApplyLimit
    \/ Startup
    \/ \E r \in Requests :
         \/ ServeAll(r)
         \/ WrapperReturn(r)
SpecHeaders == InitHeaders /\ [][NextHeaders]_vars

\* A handler whose response already carries Retry-After, with headers
\* enabled in http-date and in delta-seconds mode, on a server whose local
\* time zone is GMT or an hour to either side of it: an operation with a
\* static quota (the async_wrapper injects) and an undecorated one under a
\* default quota (LimiterMiddleware injects).
TimeZones == {0 - 3600, 0, 3600}
RetryAfterModes == {"http-date", "delta-seconds"}
ConfigsRetryAfter ==
    {[Config(TRUE, TRUE, TRUE, FALSE, "url", FALSE, <<>>,
             <<Item(2, "minute")>>, <<>>)
        EXCEPT !.retry_after = mode, !.tz = tz] :
        mode \in RetryAfterModes, tz \in TimeZones}
\* The Retry-After values the handler sets: earlier and later than the
\* reset of the window, as a date and as a number of seconds.
ExistingRetryAfter(mode) ==
    IF mode = "http-date"
    THEN {formatdate(time_time(d)) : d \in {30, 90}}
    ELSE {str(d) : d \in {30, 2 * BootEpoch}}
TrafficRetryAfter(mode) ==
    {[Client(op, path, "ipA", 1) EXCEPT !.retry_after = <<v>>] :
        op \in {"routes.t1"}, path \in {"/t1/a"},
        v \in ExistingRetryAfter(mode)}
InitRetryAfter ==
    InitWith(ConfigsRetryAfter, PlansDenial,
             TrafficRetryAfter(cfg.retry_after), {1})
NextRetryAfter ==
    \/ ApplyLimit
    \/ Startup
    \/ Tick
    \/ \E r \in Requests : ServeAll(r)
SpecRetryAfter == InitRetryAfter /\ [][NextRetryAfter]_vars

\* Two stacked quotas on one operation, the first with a static error
\* message and the second with a callable one or none, in both orders of
\* tightness.
WithMessage(a, error_message) == [a EXCEPT !.error_message = error_message]
PlansMessages ==
    {<<Step("limit", "routes.t1", WithMessage(Quota(1), Message("slow down"))),
       Step("limit", "routes.t1", WithMessage(QuotaForAll(2), m))>> :
        m \in {NoMessage, CallableMessage("try later")}}
    \cup
    {<<Step("limit", "routes.t1", WithMessage(Quota(2), Message("slow down"))),
       Step("limit", "routes.t1", WithMessage(QuotaForAll(1), m))>> :
        m \in {NoMessage, CallableMessage("try later")}}
InitMessages == InitWith(ConfigsQuota, PlansMessages, TrafficQuota, {MaxInFlight})
NextMessages ==
    \/ ApplyLimit
    \/ Startup
    \/ \E r \in Requests : ServeQuota(r)
SpecMessages == InitMessages /\ [][NextMessages]_vars

\* A store that fails and recovers under an engine with fallback quotas
\* and headers enabled that swallows errors, while time passes and the
\* counters are reset, on an undecorated operation.
ConfigsRevival ==
    {Config(TRUE, TRUE, TRUE, TRUE, "url", TRUE,
            <<Item(1, "minute")>>, <<Item(2, "minute")>>, <<>>)}
InitRevival == InitWith(ConfigsRevival, {<<>>}, TrafficDegraded, {1})
NextRevival ==
    \/ Startup
    \/ StoreFail
    \/ StoreRecover
    \/ Tick
    \/ reset
    \/ \E r \in Requests :
         \/ Dispatch(r)
         \/ ProbeReply(r)
         \/ HitReply(r)
         \/ Handler(r)
         \/ rate_limit_exceeded_handler(r)
         \/ MiddlewareReturn(r)
         \/ StatsReply(r)
SpecRevival == InitRevival /\ [][NextRevival]_vars

\* A default quota next to operations without bindings, with static and
\* with dynamic bindings, registered with override_defaults true, false,
\* or one of each, on a healthy store.
KeepingDefaults(a) == [a EXCEPT !.override_defaults = FALSE]
ConfigsDefaults == {WithDefaults(<<Item(3, "minute")>>, <<>>)}
PlansDefaults ==
    {<<>>,
     <<Step("limit", "routes.t1", Quota(2))>>,
     <<Step("limit", "routes.t1", KeepingDefaults(Quota(2)))>>,
     <<Step("limit", "routes.t1", KeepingDefaults(Quota(2))),
       Step("limit", "routes.t1", QuotaForAll(2))>>,
     <<Step("limit", "routes.t1", DynamicQuota)>>,
     <<Step("limit", "routes.t1", KeepingDefaults(DynamicQuota))>>}
InitDefaults == InitWith(ConfigsDefaults, PlansDefaults, TrafficQuota, {MaxInFlight})
SpecDefaults == InitDefaults /\ [][NextOnce]_vars

\* Two stacked quotas of different amounts and windows on one operation,
\* per identity and for all identities, the second also at a cost of 2.
PerHour(a, n) == [a EXCEPT !.items = <<Item(n, "hour")>>]
AtCost(a, cost) == [a EXCEPT !.cost = cost]
PlansRecorded ==
    {<<Step("limit", "routes.t1", Quota(2)),
       Step("limit", "routes.t1", PerHour(QuotaForAll(1), 1))>>,
     <<Step("limit", "routes.t1", PerHour(Quota(1), 1)),
       Step("limit", "routes.t1", QuotaForAll(2))>>,
     <<Step("limit", "routes.t1", Quota(1)),
       Step("limit", "routes.t1", AtCost(QuotaForAll(2), 2))>>,
     <<Step("limit", "routes.t1", Quota(2)),
       Step("limit", "routes.t1", QuotaForAll(1))>>}
InitRecorded == InitWith(ConfigsQuota, PlansRecorded, TrafficQuota, {MaxInFlight})
SpecRecorded == InitRecorded /\ [][NextMessages]_vars

\* Two decorators stacked on one operation, static and dynamic in every
\* combination and order (the first step of a plan is the innermost
\* decorator, which registers first), on a healthy store.
PlansOrder ==
    {<<Step("limit", "routes.t1", Quota(1)),
       Step("limit", "routes.t1", QuotaForAll(2))>>,
     <<Step("limit", "routes.t1", QuotaForAll(2)),
       Step("limit", "routes.t1", Quota(1))>>,
     <<Step("limit", "routes.t1", PerHour(Quota(1), 3)),
       Step("limit", "routes.t1", DynamicQuota)>>,
     <<Step("limit", "routes.t1", DynamicQuota),
       Step("limit", "routes.t1", PerHour(Quota(1), 3))>>,
     <<Step("limit", "routes.t1", DynamicQuota),
       Step("limit", "routes.t1", DynamicQuota)>>}
InitOrder == InitWith(ConfigsQuota, PlansOrder, TrafficQuota, {MaxInFlight})
SpecOrder == InitOrder /\ [][NextMessages]_vars

\* Either middleware class installed, with headers enabled, errors
\* swallowed or not, with and without fallback quotas, under a default
\* quota: an undecorated operation and one with a dynamic quota only (the
\* middleware checks both), responses of one body message or several, and
\* a store that may fail; the requests are served one after the other.
ConfigsAdapters ==
    {[Config(TRUE, TRUE, TRUE, sw, "url", FALSE, fb, <<Item(1, "minute")>>, <<>>)
        EXCEPT !.asgi = asgi] :
        sw \in BOOLEAN, fb \in {<<>>, <<Item(1, "minute")>>}, asgi \in BOOLEAN}
PlansAdapters == {<<>>, <<Step("limit", "routes.t1", DynamicQuota)>>}
InitAdapters == InitWith(ConfigsAdapters, PlansAdapters, TrafficASGI, {1})
NextAdapters ==
    \/ ApplyLimit
    \/ Startup
    \/ StoreFail
    \/ \E r \in Requests :
         \/ ServeAll(r)
         \/ SendWrapper(r)
SpecAdapters == InitAdapters /\ [][NextAdapters]_vars

\* Two stacked quotas on one operation, one of them with a method
\* allow-list (written in another case than the request's method) or with
\* an exemption predicate, for GET and POST requests of two identities
\* served one after the other.
ForMethods(a, methods) == [a EXCEPT !.has_methods = TRUE, !.methods = methods]
ExemptWhen(a, name) == [a EXCEPT !.exempt_when = name]
PlansSkipped ==
    {<<Step("limit", "routes.t1", ForMethods(Quota(1), ms)),
       Step("limit", "routes.t1", PerHour(QuotaForAll(2), 2))>> :
        ms \in {{"Get"}, {"post"}}}
    \cup {<<Step("limit", "routes.t1", ExemptWhen(Quota(1), "ipA")),
            Step("limit", "routes.t1", PerHour(QuotaForAll(2), 2))>>,
          <<Step("limit", "routes.t1", PerHour(QuotaForAll(2), 2)),
            Step("limit", "routes.t1", ExemptWhen(Quota(1), "always"))>>}
TrafficSkipped ==
    {Client("routes.t1", "/t1/a", "ipA", 1),
     [Client("routes.t1", "/t1/a", "ipA", 1) EXCEPT !.method = "POST"],
     Client("routes.t1", "/t1/a", "ipB", 1)}
InitSkipped == InitWith(ConfigsQuota, PlansSkipped, TrafficSkipped, {1})
SpecSkipped == InitSkipped /\ [][NextMessages]_vars

\* Two stacked quotas on one operation under an engine with fallback
\* quotas, requests in flight together and a primary store that fails
\* while they are being evaluated.
ConfigsStores ==
    {Config(TRUE, FALSE, TRUE, FALSE, "url", TRUE, <<Item(1, "minute")>>,
            <<>>, <<>>)}
PlansStores ==
    {<<Step("limit", "routes.t1", Quota(2)),
       Step("limit", "routes.t1", PerHour(QuotaForAll(2), 3))>>}
InitStores == InitWith(ConfigsStores, PlansStores, TrafficQuota, {MaxInFlight})
NextStores ==
    \/ ApplyLimit
    \/ Startup
    \/ StoreFail
    \/ \E r \in Requests : ServeQuota(r)
SpecStores == InitStores /\ [][NextStores]_vars

\* An engine with fallback quotas in front of a store that, once impaired,
\* keeps answering check() while its increments fail at once or time out,
\* on an undecorated operation under a default quota.
ConfigsReentry ==
    {[Config(TRUE, FALSE, TRUE, FALSE, "url", TRUE, <<Item(1, "minute")>>,
             <<Item(2, "minute")>>, <<>>) EXCEPT !.check_answers = TRUE]}
InitReentry == InitWith(ConfigsReentry, {<<>>}, TrafficDegraded, {1})
NextReentry ==
    \/ Startup
    \/ StoreFail
    \/ \E r \in Requests :
         \/ Timeout(r)
         \/ Dispatch(r)
         \/ ProbeReply(r)
         \/ HitReply(r)
         \/ Handler(r)
         \/ rate_limit_exceeded_handler(r)
         \/ MiddlewareReturn(r)
SpecReentry == InitReentry /\ [][NextReentry]_vars

\* Fallback quotas, and one operation whose quota calls the application's
\* code during evaluation: an exemption predicate, a key function or a cost
\* function that reads the request's foo header, or a callable scope; the
\* requests carry the header or not, and the primary store may fail.
ConfigsCallables ==
    {Config(TRUE, FALSE, TRUE, sw, "url", TRUE, <<Item(1, "minute")>>, <<>>, <<>>) :
        sw \in BOOLEAN}
PlansCallables ==
    {<<Step("limit", "routes.t1", ExemptWhen(Quota(2), "by_header"))>>,
     <<Step("limit", "routes.t1",
            Args("", <<Item(2, "minute")>>, "by_header", "", FALSE, 1, TRUE))>>,
     <<Step("limit", "routes.t1", QuotaCallableCost(2))>>,
     <<Step("shared_limit", "routes.t1", SharedQuota(2, ScopeFunc))>>}
TrafficCallables ==
    {Client("routes.t1", "/t1/a", "ipA", foo) : foo \in 0..1}
InitCallables ==
    InitWith(ConfigsCallables, PlansCallables, TrafficCallables, {1})
NextCallables ==
    \/ ApplyLimit
    \/ ApplySharedLimit
    \/ Startup
    \/ StoreFail
    \/ \E r \in Requests : ServeQuota(r)
SpecCallables == InitCallables /\ [][NextCallables]_vars

\* Every way of configuring the fallback (the flag, a list of fallback
\* quotas, both, neither), with headers enabled and a primary store that
\* may fail during the check or during header injection.
ConfigsAccessor ==
    {Config(TRUE, TRUE, TRUE, sw, "url", flag, fb, <<Item(1, "minute")>>, <<>>) :
        sw \in BOOLEAN, flag \in BOOLEAN, fb \in {<<>>, <<Item(1, "minute")>>}}
InitAccessor == InitWith(ConfigsAccessor, {<<>>}, TrafficDegraded, {1})
NextAccessor ==
    \/ Startup
    \/ StoreFail
    \/ \E r \in Requests :
         \/ Dispatch(r)
         \/ HitReply(r)
         \/ Handler(r)
         \/ rate_limit_exceeded_handler(r)
         \/ MiddlewareReturn(r)
         \/ StatsReply(r)
SpecAccessor == InitAccessor /\ [][NextAccessor]_vars

\* Requests in flight together under fallback quotas, a primary store that
\* fails and recovers, and time that passes between their probes.
ConfigsOverlap ==
    {Config(TRUE, FALSE, TRUE, FALSE, "url", TRUE, <<Item(1, "minute")>>,
            <<Item(2, "minute")>>, <<>>)}
InitOverlap == InitWith(ConfigsOverlap, {<<>>}, TrafficDegraded, {MaxInFlight})
NextOverlap ==
    \/ Startup
    \/ StoreFail
    \/ StoreRecover
    \/ SleepUntilDue
    \/ \E r \in Requests :
         \/ Dispatch(r)
         \/ ProbeReply(r)
         \/ HitReply(r)
         \/ Handler(r)
         \/ rate_limit_exceeded_handler(r)
         \/ MiddlewareReturn(r)
SpecOverlap == InitOverlap /\ [][NextOverlap]_vars

(* ------------------------------ properties ---------------------------- *)

\* What the history tells about a request.
Done(r) == req[r].pc = "done"
\* The operation's own handler ran and the response is its answer.
Admitted(r) == req[r].handled /\ req[r].status = 200
\* The request was rejected with HTTP 429 and its handler did not run.
Denied(r) == ~req[r].handled /\ req[r].status = 429
\* The charges of request r as a set of [request, index] pairs.
ChargesOf(r) == {<<r, i>> : i \in DOMAIN req[r].charges}
AllCharges == UNION {ChargesOf(r) : r \in Requests}
ChargeAt(p) == req[p[1]].charges[p[2]]
\* The requests that incremented counter k of a store in window w.
Chargers(store, k, w) ==
    {r \in Requests :
        \E i \in DOMAIN req[r].charges :
            /\ req[r].charges[i].store = store
            /\ req[r].charges[i].key = k
            /\ req[r].charges[i].window = w}
\* The requests before r that incremented the counter of charge ch.
EarlierChargers(r, ch) ==
    {q \in Chargers(ch.store, ch.key, ch.window) : q < r}

\* C1: with a single quota of N per window, cost 1 and a healthy store,
\* when the requests are served one after the other, the n-th request of a
\* window on one storage key is admitted (200 from its handler) if n <= N
\* and denied with 429 if n > N.
C1_FirstNAdmittedThenDenied ==
    concurrency = 1 =>
        \A r \in Requests :
            Done(r) =>
                /\ Len(req[r].charges) = 1
                /\ LET ch == req[r].charges[1]
                       n == Cardinality(EarlierChargers(r, ch)) + 1
                   IN /\ ch.cost = 1
                      /\ ch.post = n
                      /\ IF n <= ch.key.item.amount
                         THEN Admitted(r) ELSE Denied(r)

\* Three sequential requests of one identity against 2/minute in one window:
\* the first two are admitted and the third is denied.
C1_Witness ==
    /\ concurrency = 1
    /\ \A r \in 1..3 :
         /\ Done(r)
         /\ Len(req[r].charges) = 1
         /\ req[r].charges[1].key = req[1].charges[1].key
         /\ req[r].charges[1].window = 0
         /\ req[r].charges[1].key.item.amount = 2
    /\ Admitted(1) /\ Admitted(2) /\ Denied(3)

\* C2: whatever the interleaving of the checks in flight, the requests
\* admitted on one storage key in one window never exceed the quota's
\* amount N, and they are exactly N once at least N requests that were
\* charged to the key have all been answered.
C2_AdmittedWithinQuota ==
    \A p \in AllCharges :
        LET ch == ChargeAt(p)
            on == Chargers(ch.store, ch.key, ch.window)
            admitted == {r \in on : req[r].handled}
        IN /\ Cardinality(admitted) <= ch.key.item.amount
           /\ (Cardinality(on) >= ch.key.item.amount
               /\ \A r \in on : Done(r))
              => Cardinality(admitted) = ch.key.item.amount

\* Two checks on the same key of a 1/minute quota are in flight at once,
\* both increments issued before either reply has been handled.
C2_Witness ==
    \E r, q \in Requests :
        /\ r # q
        /\ req[r].pc = "hit" /\ req[q].pc = "hit"
        /\ Len(req[r].charges) = 1 /\ Len(req[q].charges) = 1
        /\ req[r].charges[1].key = req[q].charges[1].key
        /\ req[r].charges[1].window = req[q].charges[1].window
        /\ req[r].charges[1].key.item.amount = 1
        /\ req[r].charges[1].allowed /\ ~req[q].charges[1].allowed

\* The charge made just before charge ch on the same counter of the same
\* window (empty for the first one).
Previous(ch) ==
    {ChargeAt(p) : p \in {x \in AllCharges :
        /\ ChargeAt(x).store = ch.store
        /\ ChargeAt(x).key = ch.key
        /\ ChargeAt(x).window = ch.window
        /\ ChargeAt(x).ord = ch.ord - 1}}
\* Every charge up to ch on its counter cost c.
UniformCost(ch, c) ==
    \A p \in AllCharges :
        (/\ ChargeAt(p).store = ch.store
         /\ ChargeAt(p).key = ch.key
         /\ ChargeAt(p).window = ch.window
         /\ ChargeAt(p).ord <= ch.ord) => ChargeAt(p).cost = c
\* The only quota registered for the operation of request r.
QuotaOf(r) == _route_limits[req[r].op][1]

\* C3: with a quota N and an integer cost c >= 1, static or computed from
\* the request, every request, admitted or denied, adds its cost to the
\* counter; a request is admitted only while the counter stays within N,
\* so when every request costs c the n-th one on a key is admitted exactly
\* if n <= N \div c.
C3_CostAddedAdmittedUpToFloor ==
    \A r \in Requests :
        Len(req[r].charges) > 0 =>
            LET ch == req[r].charges[1]
                c == IF QuotaOf(r).cost_callable THEN req[r].foo
                     ELSE QuotaOf(r).cost
                N == ch.key.item.amount
                before == IF ch.ord = 1 THEN 0
                          ELSE (CHOOSE x \in Previous(ch) : TRUE).post
            IN /\ Len(req[r].charges) = 1
               /\ c >= 1
               /\ ch.cost = c
               /\ ch.post = before + c
               /\ Done(r) =>
                    /\ Admitted(r) \/ Denied(r)
                    /\ Admitted(r) => ch.post <= N
                    /\ UniformCost(ch, c) => (Admitted(r) <=> ch.ord <= N \div c)

\* Quota 3/minute, cost 2: the first request is admitted and leaves the
\* counter at 2, the second is denied and leaves it at 4.
C3_Witness ==
    \E r, q \in Requests :
        /\ Done(r) /\ Done(q)
        /\ Len(req[r].charges) = 1 /\ Len(req[q].charges) = 1
        /\ req[r].charges[1].key = req[q].charges[1].key
        /\ req[r].charges[1].key.item.amount = 3
        /\ req[r].charges[1].ord = 1 /\ req[r].charges[1].post = 2
        /\ req[q].charges[1].ord = 2 /\ req[q].charges[1].post = 4
        /\ Admitted(r) /\ Denied(q)
        /\ redis[req[q].charges[1].key] = 4

\* The two operations are bound to one scope (with one quota), and two
\* requests of one identity, one to each, were charged in the same window.
SameScope ==
    /\ Has(_route_limits, "routes.t1") /\ Has(_route_limits, "routes.t2")
    /\ _route_limits["routes.t1"][1].scope = _route_limits["routes.t2"][1].scope
SameQuota ==
    _route_limits["routes.t1"][1].limit = _route_limits["routes.t2"][1].limit
SharedPair(r, q) ==
    /\ req[r].op = "routes.t1" /\ req[q].op = "routes.t2"
    /\ req[r].ident = req[q].ident
    /\ Len(req[r].charges) = 1 /\ Len(req[q].charges) = 1
    /\ req[r].charges[1].window = req[q].charges[1].window

\* C5 as stated: two operations bound with shared_limit to one scope and
\* one key function are charged to one counter, so that a request to B by
\* an identity whose requests to A have used up the quota is denied.
C5_SharedScopeOneCounter ==
    SameScope =>
        \A r, q \in Requests :
            SharedPair(r, q) =>
                /\ req[r].charges[1].key = req[q].charges[1].key
                /\ (/\ concurrency = 1 /\ r < q
                    /\ Done(r) /\ Done(q)
                    /\ req[r].charges[1].post >= req[r].charges[1].key.item.amount)
                   => Denied(q)

\* C5, amended: the same holds when the two bindings also carry the same
\* quota (amount and window), under both key styles; the counter is keyed
\* by the identity, the scope and the quota.
C5_SharedScopeAndQuotaOneCounter ==
    (SameScope /\ SameQuota) =>
        \A r, q \in Requests :
            SharedPair(r, q) =>
                /\ req[r].charges[1].key = req[q].charges[1].key
                /\ req[r].charges[1].key.ids =
                       <<req[r].ident, _route_limits["routes.t1"][1].scope>>
                /\ req[r].charges[1].ord # req[q].charges[1].ord
                /\ \A x \in {r, q} :
                     Done(x) =>
                        (Denied(x) <=> req[x].charges[1].ord
                                         > req[x].charges[1].key.item.amount)

\* 1/minute shared by both operations: the request to A is admitted, the
\* following request of the same identity to B is denied.
C5_Witness ==
    /\ SameScope /\ SameQuota
    /\ \E r, q \in Requests :
         /\ SharedPair(r, q)
         /\ Done(r) /\ Done(q)
         /\ req[r].charges[1].key.item.amount = 1
         /\ req[r].charges[1].ord = 1 /\ req[q].charges[1].ord = 2
         /\ Admitted(r) /\ Denied(q)

\* C6: with key_style=url the counter of a request is keyed by its path, so
\* requests to one operation under different paths are charged to distinct
\* counters and each path admits up to the quota; with key_style=endpoint
\* it is keyed by the operation's qualified name, so they share one counter
\* (with 1/minute the second request is denied and the counter reads 2).
C6_KeyStyleSelectsCounter ==
    \A r \in Requests :
        Len(req[r].charges) > 0 =>
            LET ch == req[r].charges[1]
            IN /\ Len(req[r].charges) = 1
               /\ ch.key.ids = <<req[r].ident,
                                 IF cfg.key_style = "url" THEN req[r].path
                                 ELSE req[r].op>>
               /\ ch.post = ch.ord
               /\ Done(r) => IF ch.ord <= ch.key.item.amount
                             THEN Admitted(r) ELSE Denied(r)
               /\ \A q \in Requests :
                    (/\ Len(req[q].charges) > 0
                     /\ req[q].ident = req[r].ident
                     /\ req[q].op = req[r].op
                     /\ req[q].path # req[r].path)
                    => (req[q].charges[1].key = ch.key
                            <=> cfg.key_style = "endpoint")

\* key_style=endpoint, 1/minute: one identity asks for two paths of the
\* operation; the second request is denied and the counter reads 2.
C6_Witness ==
    /\ cfg.key_style = "endpoint"
    /\ \E r, q \in Requests :
         /\ Done(r) /\ Done(q)
         /\ req[r].path # req[q].path
         /\ req[r].ident = req[q].ident
         /\ Len(req[r].charges) = 1 /\ Len(req[q].charges) = 1
         /\ req[r].charges[1].key.item.amount = 1
         /\ req[r].charges[1].window = req[q].charges[1].window
         /\ Admitted(r) /\ Denied(q)
         /\ redis[req[q].charges[1].key] = 2

\* The quotas stacked on routes.t1: P is keyed by the identity, G by a key
\* that is the same for every identity.
StackedP == CHOOSE l \in {_route_limits["routes.t1"][i] : i \in 1..2} :
                l.key_func = "get_ipaddr"
StackedG == CHOOSE l \in {_route_limits["routes.t1"][i] : i \in 1..2} :
                l.key_func = "const"
\* The requests admitted in window w: those whose handler ran and whose
\* charges were made in w.
AdmittedIn(w) ==
    {r \in Requests :
        /\ req[r].handled
        /\ \A i \in DOMAIN req[r].charges : req[r].charges[i].window = w}
\* The charge of request r on the counter of G, if it made one.
ChargesOnG(r) ==
    {i \in DOMAIN req[r].charges : req[r].charges[i].key.ids[1] = "test"}
\* Request r is the first request of its identity in window w.
Fresh(r, w) ==
    \A q \in Requests \ {r} :
        req[q].ident = req[r].ident
            => \A i \in DOMAIN req[q].charges : req[q].charges[i].window # w

\* C9: with a per-identity quota P and a quota G for all identities stacked
\* on one operation, in one window every identity is admitted at most P
\* times and all identities together at most G times, and a request of an
\* identity that has made no request yet, arriving once G is used up, is
\* denied.
C9_StackedQuotasBothEnforced ==
    phase = "serving" =>
        \A w \in 0..rollovers :
            /\ \A id \in Identities :
                 Cardinality({r \in AdmittedIn(w) : req[r].ident = id})
                     <= StackedP.limit.amount
            /\ Cardinality(AdmittedIn(w)) <= StackedG.limit.amount
            /\ \A r \in Requests :
                 (/\ Done(r)
                  /\ Fresh(r, w)
                  /\ \E i \in ChargesOnG(r) :
                        /\ req[r].charges[i].window = w
                        /\ req[r].charges[i].post > StackedG.limit.amount)
                 => Denied(r)

\* P = 2 and G = 2: one identity is admitted twice, which uses up G; the
\* first request of the other identity is then denied.
C9_Witness ==
    /\ phase = "serving"
    /\ StackedP.limit.amount = 2 /\ StackedG.limit.amount = 2
    /\ \A r \in 1..3 : Done(r) /\ \A i \in DOMAIN req[r].charges :
                                     req[r].charges[i].window = 0
    /\ req[1].ident = req[2].ident /\ req[3].ident # req[1].ident
    /\ Admitted(1) /\ Admitted(2) /\ Denied(3)
    /\ Fresh(3, 0)
    /\ \E i \in ChargesOnG(3) : req[3].charges[i].post = 3

\* The counters of both stores that request r incremented, and the counters
\* whose identifiers name the operation or the path of r.
CountersOf(store, r) ==
    {k \in DOMAIN store : \E id \in {req[r].op, req[r].path} :
        \E j \in DOMAIN k.ids : k.ids[j] = id}

\* C4: a request to an operation marked with exempt is never charged and
\* never denied, whether the operation is decorated (the async_wrapper
\* meets it) or not (the middleware meets it), whether the engine is HEALTHY
\* or DEGRADED and whatever quotas are configured: it increments no counter
\* of either store, no store holds a counter of the operation, it is never
\* answered 429 and its handler always runs.  (The answer is the handler's
\* 200 unless the operation is also decorated and headers are enabled:
\* then the async_wrapper fails on the header state no check recorded.)
C4_ExemptNeverCharged ==
    \A r \in Requests :
        req[r].op \in _exempt_routes =>
            /\ req[r].charges = <<>>
            /\ req[r].run = 0 \/ req[r].all_limits = <<>>
            /\ CountersOf(redis, r) = {} /\ CountersOf(memory, r) = {}
            /\ req[r].pc # "exception_handler"
            /\ req[r].status # 429
            /\ Done(r) =>
                 /\ req[r].handled
                 /\ \/ req[r].status = 200
                    \/ /\ req[r].status = 500
                       /\ cfg.headers_enabled
                       /\ Has(_marked_for_limiting, req[r].op)

\* The engine is DEGRADED after a request to the undecorated operation met
\* the failing store and was charged in memory; a request to the exempt,
\* decorated operation has gone through its async_wrapper meanwhile and
\* was answered by its handler without a charge.
C4_Witness ==
    /\ _storage_dead
    /\ \E r, q \in Requests :
         /\ req[r].op \in _exempt_routes
         /\ Has(_marked_for_limiting, req[r].op)
         /\ req[r].run = 1
         /\ Done(r) /\ req[r].handled
         /\ req[r].charges = <<>>
         /\ q < r
         /\ req[q].op \notin _exempt_routes
         /\ \E i \in DOMAIN req[q].charges : req[q].charges[i].store = "memory"

\* C7: a limiter constructed with enabled=False does nothing, whatever its
\* other settings: every request, to a decorated or an undecorated
\* operation, is answered by its handler, no counter is charged and no
\* header state (request.state.view_rate_limit) is recorded.
C7_DisabledDoesNothing ==
    ~cfg.enabled =>
        \A r \in Requests :
            /\ req[r].charges = <<>>
            /\ ~req[r].vrl_set
            /\ req[r].headers = 0
            /\ Done(r) => Admitted(r)

\* C8: whatever is registered for the operation, the middleware and the
\* async_wrappers together run at most one evaluation that increments
\* counters for a request: all the charges of a request belong to one run
\* of _check_request_limit.
C8_OneChargeableEvaluation ==
    \A r \in Requests :
        \A i, j \in DOMAIN req[r].charges :
            req[r].charges[i].run = req[r].charges[j].run

\* The operation of request r is bound to dynamic quota providers only.
DynamicOnly(r) ==
    /\ Has(_dynamic_route_limits, req[r].op)
    /\ ~Has(_route_limits, req[r].op)

\* C10: for an operation bound to a provider that takes the key, the quota
\* applied to a request is the one the provider returns for the request's
\* key: the request is charged to counters of that quota and identity only,
\* and it is denied exactly if it is beyond the amount of its own identity.
C10_DynamicQuotaPerKey ==
    \A r \in Requests :
        DynamicOnly(r) =>
            LET own == dynamic_limit_provider(req[r].ident)[1]
            IN /\ \A i \in DOMAIN req[r].charges :
                    /\ req[r].charges[i].key.item = own
                    /\ req[r].charges[i].key.ids[1] = req[r].ident
               /\ Done(r) =>
                    /\ Admitted(r) \/ Denied(r)
                    /\ Denied(r) <=>
                          \E i \in DOMAIN req[r].charges :
                              req[r].charges[i].ord > own.amount

\* The same, where neither default nor application-wide quotas are
\* configured.
C10_DynamicQuotaPerKeyAlone ==
    (cfg.default_limits = <<>> /\ cfg.application_limits = <<>>)
        => C10_DynamicQuotaPerKey


\* C11: from the moment the primary store is marked dead until a probe
\* succeeds, every evaluation that charges counters, for any operation
\* and through either adapter, evaluates exactly the configured fallback
\* quotas: none of the operation's own, application-wide or default quotas.
C11_DegradedEvaluatesFallbackOnly ==
    \A r \in Requests :
        (req[r].run > 0 /\ req[r].degraded /\ req[r].pc = "hit")
            => req[r].all_limits = ChainGroups(_in_memory_fallback)

\* The seconds that must have passed since the last probe attempt before
\* _should_check_backend allows the next one.
RequiredWait == 2 ^ BackendCountReset(_check_backend_count)
\* A probe attempt was made in this step.
ProbeAttempted == _check_backend_count' = BackendCountReset(_check_backend_count) + 1

\* C12: while the primary store stays dead and every probe fails, the
\* waiting time required between one probe attempt and the next never
\* decreases: it doubles from 1 second up to 32 seconds and then stays at
\* 32 seconds for every later attempt.
C12_BackoffNonDecreasingCapped ==
    [][(_storage_dead /\ ProbeAttempted) =>
          /\ RequiredWait' >= RequiredWait
          /\ RequiredWait' = IF RequiredWait >= 32 THEN 32
                             ELSE 2 * RequiredWait]_vars

\* A quota denied request r: a hit of its evaluation was refused, which
\* makes _evaluate_limits raise RateLimitExceeded.
QuotaDenied(r) == \E i \in DOMAIN req[r].charges : ~req[r].charges[i].allowed

\* C13: whenever a quota denies a request, the client receives 429 and the
\* operation's handler is not invoked, on the decorator path and on the
\* middleware path, whatever swallow_errors and the health state are, and
\* whether the registered exception handler is synchronous or asynchronous.
C13_DenialAnswers429 ==
    \A r \in Requests :
        QuotaDenied(r) =>
            /\ ~req[r].handled
            /\ Done(r) => req[r].status = 429

\* C14: a 429 is produced only when some quota denied the request.  A
\* storage error raised during the check, on the decorator path or on the
\* middleware path, ends in the request proceeding (the error swallowed)
\* or in a server error, never in a 429.
C14_Only429WhenDenied ==
    \A r \in Requests :
        /\ (req[r].status = 429 \/ req[r].pc = "exception_handler")
               => QuotaDenied(r)
        /\ (req[r].unabsorbed /\ ~QuotaDenied(r)) =>
               /\ req[r].status \in {0, 200, 500}
               /\ IF cfg.swallow_errors THEN req[r].pc # "done" \/ req[r].handled
                  ELSE Done(r) /\ ~req[r].handled /\ req[r].status = 500

\* Without a fallback and without swallowing, the store failed under the
\* middleware's check of a request before any counter was charged: the
\* request was answered with a server error, not with 429.
C14_Witness ==
    /\ ~cfg.swallow_errors
    /\ ~_in_memory_fallback_enabled
    /\ \E r \in Requests :
         /\ req[r].in_middleware
         /\ req[r].unabsorbed
         /\ Done(r)
         /\ req[r].status = 500
         /\ req[r].charges = <<>>

\* C15: when a storage error occurs during the check and no fallback can
\* absorb it, swallow_errors alone decides the outcome: if true the
\* request proceeds unmetered to its handler and receives the handler's
\* normal response; if false the error is re-raised and the request fails.
C15_SwallowErrorsDecides ==
    \A r \in Requests :
        (req[r].unabsorbed /\ ~QuotaDenied(r) /\ Done(r)) =>
            IF cfg.swallow_errors THEN Admitted(r)
            ELSE ~req[r].handled /\ req[r].status = 500

\* Some binding of the operation, static or dynamic, was registered with
\* override_defaults=True.
OverridesDefaults(op) ==
    \/ \E i \in DOMAIN Get(_route_limits, op, <<>>) :
          _route_limits[op][i].override_defaults
    \/ \E i \in DOMAIN Get(_dynamic_route_limits, op, <<>>) :
          _dynamic_route_limits[op][i].override_defaults
\* The quotas of the process-wide default list.
DefaultQuotas ==
    {ChainGroups(_default_limits)[i] : i \in DOMAIN ChainGroups(_default_limits)}

\* C16: for an operation that has a binding with override_defaults=True,
\* the default quotas are never evaluated or charged for a request to it,
\* on either adapter path.
C16_OverrideSuppressesDefaults ==
    \A r \in Requests :
        OverridesDefaults(req[r].op) =>
            \A i \in DOMAIN req[r].all_limits :
                req[r].all_limits[i] \notin DefaultQuotas

\* _check_request_limit run to its end on the engine state s, every store
\* operation answered at once.
RECURSIVE RunCheck(_)
RunCheck(s) ==
    IF s.rq.pc = "hit" THEN RunCheck(HitReplied(s))
    ELSE IF s.rq.pc = "probe" THEN RunCheck(Probed(s))
    ELSE s
\* What _check_request_limit(request, handler, in_middleware) decides for
\* the request of client c on the counters as they are now.
Decision(c, in_middleware) ==
    LET rq == [NewRequest(c) EXCEPT !.in_middleware = in_middleware,
                                    !.run = 1]
        end == RunCheck(_check_request_limit(Engine(rq))).rq
    IN IF end.pc = "exception_handler" THEN "deny"
       ELSE IF end.status = 500 THEN "error"
       ELSE "admit"

\* C17: given the same request, the same operation and the same counter
\* state, the check of the decorator adapter (in_middleware=False) and the
\* check of the transport-level adapter (in_middleware=True) reach the same
\* admit/deny decision.
C17_AdaptersAgree ==
    phase = "serving" =>
        \A c \in clients : Decision(c, TRUE) = Decision(c, FALSE)

\* The http.response.start messages among the messages forwarded so far.
StartsSent(r) ==
    {i \in DOMAIN req[r].sent : req[r].sent[i].type = "http.response.start"}

\* C18: for every response that passes through send_wrapper, exactly one
\* http.response.start message is forwarded to the client, before the
\* first body message, carrying the status (429 on denial) and the
\* injected headers, also when the body is streamed in several
\* http.response.body messages.
C18_OneStartFrame ==
    \A r \in Requests :
        req[r].sent # <<>> =>
            /\ StartsSent(r) = {1}
            /\ req[r].sent[1].status = IF QuotaDenied(r) THEN 429 ELSE 200
            /\ req[r].sent[1].headers >= 1

\* The decorated functions, as [name, function] pairs.
Decorated ==
    UNION {{<<name, _marked_for_limiting[name][i]>> :
               i \in DOMAIN _marked_for_limiting[name]} :
           name \in DOMAIN _marked_for_limiting}

\* C19: applying limit or shared_limit to a handler whose signature has no
\* request parameter fails at decoration time with a ValueError whose
\* message starts with "Missing or invalid `request` argument specified
\* on", and no request is ever served by such a handler.  (The back
\* quotes of the message are left out of the string below.)
C19_MissingRequestParamValueError ==
    \A d \in Decorated :
        ~d[2].request_param =>
            /\ raised = Exception("ValueError",
                   "Missing or invalid request argument specified on")
            /\ phase # "serving"
            /\ \A r \in Requests : req[r].op # d[1]

\* C20: registering a static quota with a malformed quota string fails at
\* registration time: the registration raises a parse error, and the
\* operation is never left registered and served without that quota.
C20_MalformedQuotaFailsRegistration ==
    \A d \in Decorated :
        d[2].malformed =>
            /\ raised.type = "ValueError"
            /\ phase # "serving"
            /\ \A r \in Requests : req[r].op = d[1] => ~req[r].handled

\* The header lines of a response, by name.
X_RateLimit_Limit(r) == req[r].x_limit
HeaderLines(r) ==
    <<Len(req[r].x_limit), Len(req[r].x_remaining), Len(req[r].x_reset),
      Len(req[r].retry_after)>>

\* C21: with headers enabled, every response of a limited operation,
\* admitted or rejected, carries X-RateLimit-Limit equal to the amount of
\* the quota recorded for headers, together with X-RateLimit-Remaining,
\* X-RateLimit-Reset and Retry-After.
C21_HeadersOnEveryResponse ==
    \A r \in Requests :
        (/\ Done(r)
         /\ cfg.headers_enabled
         /\ Has(_marked_for_limiting, req[r].op)
         /\ Admitted(r) \/ Denied(r)) =>
            /\ req[r].vrl # <<>>
            /\ X_RateLimit_Limit(r) = <<req[r].vrl[1].limit.amount>>
            /\ HeaderLines(r) = <<1, 1, 1, 1>>

\* The instant or the number of seconds a Retry-After value names, and the
\* later of two values of one kind.
RetryAfterValue(v) ==
    IF "http_date" \in DOMAIN v THEN v.http_date ELSE v.seconds
Later(a, b) == IF RetryAfterValue(a) >= RetryAfterValue(b) THEN a ELSE b

\* C22: when the response already carries a Retry-After value, the
\* Retry-After that the header injection writes is the larger (later) of
\* the existing value and the value computed from the window reset, in
\* http-date mode and in delta-seconds mode; an existing Retry-After is
\* never replaced by a smaller one.
C22_RetryAfterLargerWins ==
    \A r \in Requests :
        (req[r].headers > 0 /\ req[r].found # <<>>) =>
            /\ req[r].retry_after =
                   <<Later(req[r].found[1], req[r].computed[1])>>
            /\ RetryAfterValue(req[r].retry_after[1])
                   >= RetryAfterValue(req[r].found[1])

\* The request's hit on the quota at position k of its list was refused
\* and _evaluate_limits has handled the refusal.
DeniedAt(r, k) ==
    /\ req[r].pc # "hit"
    /\ req[r].idx = k
    /\ req[r].charges # <<>>
    /\ ~req[r].charges[Len(req[r].charges)].allowed
\* The positions of the request's quota list that were charged.
ChargedPositions(r) ==
    {k \in DOMAIN req[r].all_limits :
        \E i \in DOMAIN req[r].charges :
            req[r].charges[i].key =
                CounterKey(req[r].all_limits[k].limit,
                           limit_args(req[r].all_limits[k], req[r]))}

\* C23: when the k-th quota of a request's quota list denies, no quota
\* after position k is evaluated or charged for that request, and the
\* raised RateLimitExceeded carries that k-th quota, with its static or
\* callable-provided error message.
C23_FirstDenialStopsEvaluation ==
    \A r \in Requests :
        /\ \A i \in DOMAIN req[r].charges :
               ~req[r].charges[i].allowed =>
                   /\ i = Len(req[r].charges)
                   /\ req[r].pc \in {"hit", "exception_handler", "stats", "done"}
        /\ \A k \in DOMAIN req[r].all_limits :
               DeniedAt(r, k) =>
                   LET lim == req[r].all_limits[k]
                   IN /\ ChargedPositions(r) \subseteq 1..k
                      /\ Len(req[r].exc) = 1
                      /\ req[r].exc[1].limit = lim
                      /\ req[r].exc[1].detail =
                             IF lim.error_message = NoMessage
                             THEN ItemStr(lim.limit)
                             ELSE <<lim.error_message.text>>
        /\ req[r].exc # <<>> => \E k \in DOMAIN req[r].all_limits : DeniedAt(r, k)

\* A request denied by the first of its two quotas, which has a static
\* error message: the second quota was not charged.
C23_Witness ==
    \E r \in Requests :
        /\ Done(r) /\ Denied(r)
        /\ DeniedAt(r, 1)
        /\ Len(req[r].all_limits) = 2
        /\ Len(req[r].charges) = 1
        /\ req[r].exc[1].detail = <<"slow down">>

\* The last counter the request incremented.
LastCharge(r) == req[r].charges[Len(req[r].charges)]

ProbeSucceeded(r) ==
    /\ req[r].pc = "probe"
    /\ req[r].result = "ok"
    /\ req'[r] # req[r]

\* C25: the engine goes from DEGRADED to HEALTHY only in a step in which
\* the backoff gate allowed a probe and that probe of the primary store
\* succeeded, and that step resets the backoff counter to 0; no other
\* operation (handling a request, header injection, reset) revives the
\* primary store.
C25_RevivedOnlyByProbe ==
    [][(_storage_dead /\ ~_storage_dead') =>
          /\ \E r \in Requests : ProbeSucceeded(r)
          /\ _check_backend_count > 0
          /\ _check_backend_count' = 0]_vars

\* The engine is HEALTHY again after a request had made it DEGRADED.
C25_Witness ==
    /\ ~_storage_dead
    /\ _check_backend_count = 0
    /\ _last_check_backend > 0
    /\ outages > 0
    /\ \E r \in Requests : req[r].last_error = "fallback" \/ req[r].retry

Min(a, b) == IF a <= b THEN a ELSE b

\* C26: a probe of the primary store is attempted only while DEGRADED and
\* only when more than 2^min(check_count, 5) seconds have passed since
\* the previous probe attempt, where check_count is the number of probe
\* attempts since the last successful probe; each attempt records the
\* current time and increments check_count.
C26_ProbeGatedByBackoff ==
    [][ProbeAttempted =>
          /\ _storage_dead'
          /\ now - _last_check_backend
                 > 2 ^ Min(_check_backend_count, MAX_BACKEND_CHECKS)
          /\ _last_check_backend' = now
          /\ _check_backend_count' = _check_backend_count + 1]_vars

\* The middleware let request r through without a check of its own and
\* without marking the response for header injection.
ForwardedUntouched(r) ==
    /\ ~req[r].responder
    /\ ~req[r].in_middleware
    /\ ~req[r].inject

\* C27: the middleware forwards a request untouched, without calling the
\* check and without injecting headers, whenever no route matches, the
\* matched operation is exempt, or the matched operation has its own
\* per-operation bindings (static or dynamic) registered by limit or
\* shared_limit.
C27_MiddlewareStepsAside ==
    \A r \in Requests :
        (/\ req[r].pc # "idle"
         /\ \/ req[r].op = NoHandler
            \/ req[r].op \in _exempt_routes
            \/ Has(_route_limits, req[r].op)
            \/ Has(_dynamic_route_limits, req[r].op)) => ForwardedUntouched(r)

\* The charges of request r on a quota of the default list.
DefaultChargesOf(r) ==
    {i \in DOMAIN req[r].charges :
        \E q \in DefaultQuotas : req[r].charges[i].key.item = q.limit}

\* C28: while HEALTHY, the process-wide default quotas are evaluated for a
\* request exactly when none of the operation's own bindings sets
\* override_defaults: an operation with no bindings of its own is governed
\* by the defaults, and an operation whose bindings all have
\* override_defaults=false is governed by its own quotas followed by the
\* defaults.
C28_DefaultsUnlessOverridden ==
    \A r \in Requests :
        (Done(r) /\ Admitted(r)) =>
            IF OverridesDefaults(req[r].op)
            THEN DefaultChargesOf(r) = {}
            ELSE DefaultChargesOf(r) = {Len(req[r].charges)}

\* What _evaluate_limits records for the quota at position k of the list.
HeaderEntry(r, k) ==
    [limit |-> req[r].all_limits[k].limit,
     args |-> limit_args(req[r].all_limits[k], req[r])]
\* _evaluate_limits has ended for request r after evaluating a quota.
Evaluated(r) == req[r].vrl_set /\ ChargedPositions(r) # {}

RetrySucceeded(r) == req[r].retry /\ req[r].result = "ok"
\* The last header injection of request r failed for good.
InjectionFailed(r) == req[r].site # "" /\ req[r].result = "error"

\* C30: when the stats lookup of header injection raises a storage error
\* while HEALTHY and fallback quotas are configured, the engine becomes
\* DEGRADED and the injection is retried against the in-memory store, and
\* the request does not fail when that retry succeeds, whatever
\* swallow_errors is; when swallow_errors is set, a failing header
\* injection is skipped and the response is still returned.
C30_HeaderInjectionFallsBack ==
    \A r \in Requests :
        /\ (req[r].pc = "stats" /\ req[r].retry) =>
               _storage_dead /\ req[r].result = "ok"
        /\ (Done(r) /\ RetrySucceeded(r)) =>
               /\ req[r].headers > 0
               /\ req[r].status \in {200, 429}
        /\ (Done(r) /\ InjectionFailed(r) /\ cfg.swallow_errors) =>
               req[r].status \in {200, 429}

\* The quotas of the operation of request rq in the order in which its
\* decorators registered them.
RECURSIVE InRegistrationOrder(_, _)
InRegistrationOrder(funcs, rq) ==
    IF funcs = <<>> THEN <<>>
    ELSE LET g == Head(funcs).group
         IN (IF g.provider # "" THEN DynamicLimits(<<g>>, rq)
             ELSE IF Head(funcs).malformed THEN <<>>
             ELSE StaticLimits(g))
            \o InRegistrationOrder(Tail(funcs), rq)
Registered(r) ==
    InRegistrationOrder(Get(_marked_for_limiting, req[r].op, <<>>), req[r])

\* C31: repeated registrations on one operation accumulate, and for each
\* request the operation's quotas are evaluated and charged in the order in
\* which they were registered (with stacked decorators, innermost first): a
\* binding registered later is never evaluated before a binding registered
\* earlier, whether the bindings are static or dynamic.
C31_EvaluatedInRegistrationOrder ==
    \A r \in Requests :
        (req[r].run > 0 /\ ~req[r].in_middleware /\ req[r].all_limits # <<>>) =>
            /\ Len(req[r].all_limits) >= Len(Registered(r))
            /\ \A i \in 1..Len(Registered(r)) :
                 req[r].all_limits[i] = Registered(r)[i]
            /\ \A i \in DOMAIN req[r].charges :
                 i <= Len(Registered(r)) =>
                     req[r].charges[i].key.item = Registered(r)[i].limit

\* The next block of the request that runs on the engine state s, every
\* store operation answered at once.
Block(s) ==
    CASE s.rq.pc = "probe" -> Probed(s)
      [] s.rq.pc = "hit" -> HitReplied(s)
      [] s.rq.pc = "wrapper" -> async_wrapper(s)
      [] s.rq.pc = "handler" -> endpoint(s)
      [] s.rq.pc = "wrapper_return" -> ReadViewRateLimit(s, "wrapper")
      [] s.rq.pc = "exception_handler" -> exception_handler(s)
      [] s.rq.pc = "middleware_return" -> ReadViewRateLimit(s, "middleware")
      [] s.rq.pc = "send" -> send_wrapper(s)
      [] s.rq.pc = "stats" -> StatsReplied(s)
\* The request served to its end.
RECURSIVE Serve(_)
Serve(s) == IF s.rq.pc = "done" THEN s ELSE Serve(Block(s))
\* The request of client c served, on the engine as it is now, by an
\* application that installed LimiterASGIMiddleware (asgi) or
\* LimiterMiddleware.
ServedBy(c, asgi, answers) ==
    Serve(dispatch([Engine(NewRequest(c)) EXCEPT !.asgi = asgi,
                                                 !.answers = answers]))
\* The store stays as it is, or becomes unreachable after some operations.
Outages == {<<>>} \cup {<<n>> : n \in 0..MaxAnswers}
\* The status code of the response, the counters and the BackendHealth
\* that serving a request leaves.
Outcome(s) ==
    [status |-> s.rq.status, redis |-> s.redis, memory |-> s.memory,
     dead |-> s.dead, count |-> s.count, last |-> s.last]

\* C32: LimiterMiddleware (request/response form) and LimiterASGIMiddleware
\* (raw ASGI form) are interchangeable: for the same limiter configuration
\* and the same sequence of requests they produce the same sequence of
\* status codes and leave the same counter values and the same
\* BackendHealth (from every engine state and for every moment at which
\* the store may become unreachable, the next request leaves the same
\* status, counters and health under either middleware).
C32_AdaptersInterchangeable ==
    phase = "serving" =>
        \A c \in clients, o \in Outages :
            Outcome(ServedBy(c, TRUE, o)) = Outcome(ServedBy(c, FALSE, o))

\* C33: handling requests (check and header injection, through either
\* adapter, in any interleaving) never modifies the binding registries
\* _route_limits, _dynamic_route_limits, _exempt_routes and
\* _marked_for_limiting nor the bindings stored in them; only the
\* registration operations limit, shared_limit and exempt change them.
C33_RegistriesReadOnlyWhileServing ==
    [][phase = "serving" => UNCHANGED registries]_vars

\* The quota that decorator f registered is to be skipped for request rq:
\* its exemption predicate is true for the request, or its method
\* allow-list holds no method equal to the request's but for case.
SkippedFor(f, rq) ==
    \/ f.group.exempt_when # "None" /\ exempt_when(f.group.exempt_when, rq)
    \/ f.group.has_methods /\ \A m \in f.methods : lower(m) # lower(rq.method)
\* Request r was charged on the quota of decorator f.
ChargedOn(r, f) ==
    \E j \in DOMAIN req[r].charges :
        req[r].charges[j].key.item = f.group.items[1]

\* C34: a quota whose exemption predicate is true for the request, or whose
\* method allow-list does not contain the request's method (compared
\* case-insensitively), is neither charged nor able to deny that request
\* and is not recorded for headers, while the other quotas of the request
\* are still evaluated.
C34_SkippedQuotaNeitherChargedNorRecorded ==
    \A r \in Requests :
        LET funcs == Get(_marked_for_limiting, req[r].op, <<>>)
        IN \A i \in DOMAIN funcs :
             IF SkippedFor(funcs[i], req[r])
             THEN /\ ~ChargedOn(r, funcs[i])
                  /\ req[r].vrl = <<>>
                     \/ req[r].vrl[1].limit # funcs[i].group.items[1]
                  /\ req[r].exc = <<>>
                     \/ req[r].exc[1].limit.limit # funcs[i].group.items[1]
             ELSE (Done(r) /\ (Admitted(r) \/ i = 1)) => ChargedOn(r, funcs[i])

\* A POST request skipped the quota whose allow-list names another method
\* and was charged on the other quota only; a GET request was charged on
\* a quota whose allow-list spells its method in another case.
C34_Witness ==
    \E r, q \in Requests :
        /\ Done(r) /\ Done(q) /\ Admitted(r)
        /\ req[r].method = "POST" /\ req[q].method = "GET"
        /\ Len(req[r].charges) = 1
        /\ LET funcs == _marked_for_limiting[req[r].op]
           IN /\ funcs[1].methods = {"Get"}
              /\ SkippedFor(funcs[1], req[r])
              /\ ~ChargedOn(r, funcs[1]) /\ ChargedOn(r, funcs[2])
              /\ ChargedOn(q, funcs[1])
              /\ req[r].vrl[1].limit = funcs[2].group.items[1]

\* C35: within one run of _evaluate_limits, all quotas of the request are
\* charged against the same counter store (all against the primary store
\* or all against the in-memory store), under any interleaving with other
\* requests that mark the primary store dead or revive it while this
\* request is suspended between increments.
C35_OneStorePerEvaluation ==
    \A r \in Requests :
        \A i, j \in DOMAIN req[r].charges :
            req[r].charges[i].eval = req[r].charges[j].eval =>
                req[r].charges[i].store = req[r].charges[j].store

\* C36: every call of _check_request_limit terminates (returns, raises
\* RateLimitExceeded or raises the storage error) after re-entering itself
\* a bounded number of times (twice at most: once to fall back and once
\* more after a probe that succeeded), for every behaviour of the primary
\* store, including a store whose health probe keeps succeeding while its
\* increments keep failing or timing out.
C36_ReentryBounded ==
    \A r \in Requests : req[r].reentries <= 2

\* The step is the reply of a store operation of request r that failed.
StoreFailed(r) ==
    /\ req[r].pc \in {"hit", "stats", "probe"}
    /\ req[r].result = "error"
    /\ req'[r] # req[r]

\* C37: the engine is marked dead (HEALTHY to DEGRADED) only in response
\* to a failure of the counter store; an exception raised during
\* evaluation by a key function, a cost function, a scope callable or an
\* exemption predicate leaves BackendHealth unchanged.
C37_DeadOnlyOnStoreFailure ==
    [][(~_storage_dead /\ _storage_dead') =>
           \E r \in Requests : StoreFailed(r)]_vars

\* C38: whenever the decorator wrapper or a middleware reads
\* request.state.view_rate_limit for header injection, a check of the same
\* request has recorded it: no read fails, also after a check that
\* returned early (exempt, auto_check off, limiter disabled with headers
\* enabled) or whose storage error was swallowed.
C38_HeaderStateRecordedBeforeRead ==
    \A r \in Requests : req[r].unset_read = <<>>

\* C39: in every reachable state the primary store is marked dead only if
\* in-memory fallback is enabled and the fallback limiter exists, so the
\* limiter accessor never raises: it is the in-memory limiter when the
\* store is dead and the primary limiter otherwise, and every increment
\* went to one of the two.
C39_DeadOnlyWithFallbackLimiter ==
    /\ _storage_dead => (_in_memory_fallback_enabled /\ _fallback_limiter)
    /\ limiter = IF _storage_dead THEN "memory" ELSE "redis"
    /\ \A r \in Requests : \A i \in DOMAIN req[r].charges :
           req[r].charges[i].store \in {"memory", "redis"}

\* The store was marked dead by header injection, under a limiter whose
\* fallback is enabled by its list of quotas alone, and a later request
\* was charged in memory.
C39_Witness ==
    /\ _storage_dead
    /\ ~cfg.fallback_enabled
    /\ limiter = "memory"
    /\ \E r \in Requests : req[r].retry
    /\ \E r \in Requests : \E i \in DOMAIN req[r].charges :
           req[r].charges[i].store = "memory"

\* C40: in every reachable state in which the engine is HEALTHY
\* (_storage_dead is false) the backoff counter _check_backend_count is 0,
\* also when the probes of several concurrent requests overlap.
C40_HealthyMeansCountZero ==
    ~_storage_dead => _check_backend_count = 0

\* The engine is HEALTHY again, revived by the probe of one request while
\* the probe of another request, made later in the backoff, is still
\* awaited.
C40_Witness ==
    /\ ~_storage_dead
    /\ _check_backend_count = 0
    /\ _last_check_backend > 2
    /\ \E r \in Requests : req[r].pc = "probe"
    /\ \E r \in Requests : req[r].last_error = "fallback" /\ req[r].pc # "probe"

====
